---- MODULE Spec2Model ----
(***************************************************************************)
(* A model of jwt-forward-auth: the reloadable configuration source, the   *)
(* orchestrator (Store::start_file_watcher) that applies configurations to *)
(* the authority and validator stores, the JWKS cache, and the /auth       *)
(* request handler.                                                        *)
(*                                                                         *)
(* Strings that are only compared (names, response bodies) are TLA+        *)
(* strings.  Strings whose bytes matter (header values, claim values) are  *)
(* sequences of bytes 0..255.                                              *)
(***************************************************************************)
EXTENDS Integers, Sequences, FiniteSets, TLC

VARIABLES
    data,         \* ReloadableInner.data: the value the watcher stored last
    waiter,       \* the orchestrator's Notified future: "none" | "registered" | "notified"
    pc,           \* position of start_file_watcher / of the spawned reload loop
    cur,          \* the value the orchestrator read with reloadable.get()
    states,       \* Inner.states: the lifecycle state
    authorities,  \* AuthorityStore.states
    validators,   \* ValidatorStore.states
    jwks,         \* JwksStore.states: uri -> entry
    orcPending,   \* URIs whose refresh the orchestrator is awaiting (join_all)
    spawned,      \* detached refreshes spawned by request handlers, per uri
    now,          \* the wall clock (seconds)
    listening,    \* the HTTP listener is bound and serving
    req,          \* the request in flight
    hin,          \* a function on enumerated inputs: the input drawn
    hout          \* a function on enumerated inputs: the result computed

vars == <<data, waiter, pc, cur, states, authorities, validators, jwks,
          orcPending, spawned, now, listening, req, hin, hout>>

sysVars == <<data, waiter, pc, cur, states, authorities, validators, jwks,
             orcPending, spawned, now, listening, req>>

---------------------------------------------------------------------------
(* Bounds of the model *)

\* file-system events the watcher delivers in one run
MaxEvents == 2
\* clock ticks in one run
MaxTicks == 1
\* detached refreshes in flight per JWKS uri
MaxSpawned == 1

---------------------------------------------------------------------------
(* Basic values *)

\* Option<T>: None is the empty tuple, Some(x) the one-element tuple
None == <<>>
Some(x) == <<x>>

EmptyMap == [x \in {} |-> x]

\* Duration::from_secs(3600), the default update interval
DefaultUpdateInterval == 3600

\* seconds the clock shows when the process starts (any real clock is hours
\* past the epoch), and the step of one tick (longer than the default
\* update interval, shorter than two)
BootTime == 3 * DefaultUpdateInterval
TickStep == DefaultUpdateInterval + 400

---------------------------------------------------------------------------
(* Byte strings *)

\* "true", "false", "," and "?" as bytes
StrTrue == <<116, 114, 117, 101>>
StrFalse == <<102, 97, 108, 115, 101>>
StrComma == <<44>>

RECURSIVE DecimalDigits(_)
DecimalDigits(n) ==
    IF n < 10 THEN <<48 + n>>
    ELSE Append(DecimalDigits(n \div 10), 48 + (n % 10))

\* i64/u64 Display: the decimal digits, '-' first for a negative number
Decimal(n) == IF n < 0 THEN <<45>> \o DecimalDigits(0 - n) ELSE DecimalDigits(n)

\* [&str]::join(sep)
RECURSIVE Join(_, _)
Join(strs, sep) ==
    IF Len(strs) = 0 THEN <<>>
    ELSE IF Len(strs) = 1 THEN strs[1]
    ELSE strs[1] \o sep \o Join(Tail(strs), sep)

IsCont(b) == b >= 128 /\ b <= 191

\* std::str::from_utf8(..).is_ok(): the well-formed UTF-8 byte sequences
RECURSIVE IsUtf8(_)
IsUtf8(bs) ==
    IF Len(bs) = 0 THEN TRUE
    ELSE LET b == bs[1]
             n == Len(bs)
             rest(k) == SubSeq(bs, k + 1, n)
         IN  IF b < 128 THEN IsUtf8(rest(1))
             ELSE IF b >= 194 /\ b <= 223
                  THEN n >= 2 /\ IsCont(bs[2]) /\ IsUtf8(rest(2))
             ELSE IF b >= 224 /\ b <= 239
                  THEN /\ n >= 3
                       /\ IsCont(bs[2]) /\ IsCont(bs[3])
                       /\ (b = 224 => bs[2] >= 160)
                       /\ (b = 237 => bs[2] <= 159)
                       /\ IsUtf8(rest(3))
             ELSE IF b >= 240 /\ b <= 244
                  THEN /\ n >= 4
                       /\ IsCont(bs[2]) /\ IsCont(bs[3]) /\ IsCont(bs[4])
                       /\ (b = 240 => bs[2] >= 144)
                       /\ (b = 244 => bs[2] <= 143)
                       /\ IsUtf8(rest(4))
             ELSE FALSE

\* [u8]::strip_prefix(prefix).unwrap_or(token)
StripPrefix(token, prefix) ==
    IF Len(prefix) <= Len(token) /\ SubSeq(token, 1, Len(prefix)) = prefix
    THEN SubSeq(token, Len(prefix) + 1, Len(token))
    ELSE token

\* variant: DEL counts as valid
is_validDel(b) == b >= 32 \/ b = 9

is_valid(b) == (b >= 32 /\ b # 127) \/ b = 9

header_val_lossy(val) ==
    [i \in 1..Len(val) |-> IF is_valid(val[i]) THEN val[i] ELSE 63]

---------------------------------------------------------------------------
(* Required claims and claim values *)

\* RequiredClaimValue: [kind |-> "None"], [kind |-> "Single", v |-> s],
\* [kind |-> "Multiple", vs |-> <<s1, ...>>]
AnyValue == [kind |-> "None"]
Single(s) == [kind |-> "Single", v |-> s]
Multiple(ss) == [kind |-> "Multiple", vs |-> ss]

\* RequiredClaimValue::matches
matches(value, s) ==
    CASE value.kind = "None" -> TRUE
      [] value.kind = "Single" -> value.v = s
      [] value.kind = "Multiple" -> \E i \in 1..Len(value.vs) : value.vs[i] = s

\* serde_json::Value: [kind |-> "null"], [kind |-> "bool", b |-> _],
\* [kind |-> "number", n |-> _], [kind |-> "string", s |-> _],
\* [kind |-> "array"], [kind |-> "object"]
IsArrayOrObject(v) == v.kind \in {"array", "object"}

\* variant: null is rendered as the text "null"
StringifyNullText(v) ==
    CASE v.kind = "null" -> <<110, 117, 108, 108>>
      [] v.kind = "bool" -> (IF v.b THEN StrTrue ELSE StrFalse)
      [] v.kind = "number" -> Decimal(v.n)
      [] v.kind = "string" -> v.s

\* the match that turns a scalar claim value into the string compared
Stringify(v) ==
    CASE v.kind = "null" -> <<>>
      [] v.kind = "bool" -> (IF v.b THEN StrTrue ELSE StrFalse)
      [] v.kind = "number" -> Decimal(v.n)
      [] v.kind = "string" -> v.s

---------------------------------------------------------------------------
(* The request handler, validators/mod.rs *)

\* variant: failures are answered 500 Internal Server Error
UnauthorizedAs500(body) == [status |-> 500, body |-> body, headers |-> EmptyMap]

\* (StatusCode::UNAUTHORIZED, body).into_response()
Unauthorized(body) == [status |-> 401, body |-> body, headers |-> EmptyMap]

OkResponse(headers) == [status |-> 200, body |-> "", headers |-> headers]

\* a panic of the handler task: no response is written
Panicked == [status |-> 0, body |-> "panic", headers |-> EmptyMap]

Fail(body) == [failed |-> TRUE, body |-> body]
Pass(val) == [failed |-> FALSE, val |-> val]

\* one iteration of the required-claims loop, up to the header emission
RequiredClaimStep(claim, claims) ==
    CASE claim.name = "aud" ->
            IF claims.aud = None THEN Fail("Token is missing audience claim")
            ELSE IF ~ \E i \in 1..Len(claims.aud[1]) :
                        matches(claim.value, claims.aud[1][i])
                 THEN Fail("Token doesn't match required audience")
                 ELSE Pass(Join(claims.aud[1], StrComma))
      [] claim.name = "iss" ->
            IF claims.iss = None THEN Fail("Token is missing issuer claim")
            ELSE IF ~ matches(claim.value, claims.iss[1])
                 THEN Fail("Token doesn't match required issuer")
                 ELSE Pass(claims.iss[1])
      [] claim.name = "sub" ->
            IF claims.sub = None THEN Fail("Token is missing subject claim")
            ELSE IF ~ matches(claim.value, claims.sub[1])
                 THEN Fail("Token doesn't match required subject")
                 ELSE Pass(claims.sub[1])
      [] claim.name = "exp" ->
            IF claims.exp = None THEN Fail("Token is missing expiration claim")
            ELSE IF ~ matches(claim.value, Decimal(claims.exp[1]))
                 THEN Fail("Token doesn't match required expiration")
                 ELSE Pass(Decimal(claims.exp[1]))
      [] claim.name = "nbf" ->
            IF claims.nbf = None THEN Fail("Token is missing not before claim")
            ELSE IF ~ matches(claim.value, Decimal(claims.nbf[1]))
                 THEN Fail("Token doesn't match required not before")
                 ELSE Pass(Decimal(claims.nbf[1]))
      [] OTHER ->
            IF claim.name \notin DOMAIN claims.other
            THEN Fail("Token is missing required " \o claim.name \o " claim")
            ELSE LET v == claims.other[claim.name]
                 IN  IF IsArrayOrObject(v) THEN Fail("Token contains invalid claim")
                     ELSE IF ~ matches(claim.value, Stringify(v))
                          THEN Fail("Token doesn't match required "
                                        \o claim.name \o " claim")
                          ELSE Pass(Stringify(v))

\* HeaderMap::insert: the new value replaces one already there
HeaderInsert(headers, key, val) == (key :> val) @@ headers

\* the loop over validator.required_claims(): the first failure returns,
\* a passed claim that is mapped is emitted and remembered
RECURSIVE EnforceRequired(_, _, _, _, _, _)
EnforceRequired(rcs, i, map_claims, claims, headers, already_inserted) ==
    IF i > Len(rcs)
    THEN [failed |-> FALSE, headers |-> headers,
          already_inserted |-> already_inserted]
    ELSE LET r == RequiredClaimStep(rcs[i], claims)
             name == rcs[i].name
         IN  IF r.failed THEN r
             ELSE IF name \in DOMAIN map_claims
                  THEN EnforceRequired(rcs, i + 1, map_claims, claims,
                           HeaderInsert(headers, map_claims[name],
                                        header_val_lossy(r.val)),
                           already_inserted \cup {name})
                  ELSE EnforceRequired(rcs, i + 1, map_claims, claims,
                                       headers, already_inserted)

\* the value the second loop projects for a mapped claim, None when the loop
\* skips it (absent, array or object)
MappedValue(claim, claims) ==
    CASE claim = "aud" ->
            (IF claims.aud = None THEN None
             ELSE Some(Join(claims.aud[1], StrComma)))
      [] claim = "iss" -> claims.iss
      [] claim = "sub" -> claims.sub
      [] claim = "exp" ->
            (IF claims.exp = None THEN None ELSE Some(Decimal(claims.exp[1])))
      [] claim = "nbf" ->
            (IF claims.nbf = None THEN None ELSE Some(Decimal(claims.nbf[1])))
      [] OTHER ->
            IF claim \notin DOMAIN claims.other THEN None
            ELSE IF IsArrayOrObject(claims.other[claim]) THEN None
            ELSE Some(Stringify(claims.other[claim]))

\* .filter(|(k, _)| already_inserted.contains(&k.as_str()))
ProjectFilter(claim, already_inserted) == claim \in already_inserted

\* the loop over validator.map_claims(); order is the order in which the
\* HashMap yields its entries
RECURSIVE ProjectMapped(_, _, _, _, _, _)
ProjectMapped(order, i, map_claims, claims, headers, already_inserted) ==
    IF i > Len(order) THEN headers
    ELSE LET claim == order[i]
             val == MappedValue(claim, claims)
         IN  IF ProjectFilter(claim, already_inserted) /\ val # None
             THEN ProjectMapped(order, i + 1, map_claims, claims,
                      HeaderInsert(headers, map_claims[claim],
                                   header_val_lossy(val[1])),
                      already_inserted)
             ELSE ProjectMapped(order, i + 1, map_claims, claims, headers,
                                already_inserted)

\* Authority::validate.  A request carries at most one JWT, wire: token is
\* its compact form exactly when token = wire.compact, anything else does
\* not decompose.  The key is looked up by the token's kid in the key set
\* loaded from the JWKS entry; wire.verifies is the outcome of the library's
\* signature and core-claims verification with the right key.
Validate(token, wire, keys) ==
    IF token # wire.compact THEN [ok |-> FALSE, err |-> "decompose"]
    ELSE IF wire.kid \notin keys THEN [ok |-> FALSE, err |-> "MissingKey"]
    ELSE IF ~ wire.verifies THEN [ok |-> FALSE, err |-> "JwtVerifyError"]
    ELSE [ok |-> TRUE, claims |-> wire.claims]

\* variant: the bytes are handed on without the UTF-8 check
HandlerPreNoUtf8(vOpt, headers) ==
    IF vOpt = None
    THEN [early |-> TRUE, resp |-> Unauthorized("Token could not be validated")]
    ELSE LET v == vOpt[1]
         IN  IF v.header \notin DOMAIN headers
             THEN [early |-> TRUE,
                   resp |-> Unauthorized("Header " \o v.header \o " not found")]
             ELSE LET raw == headers[v.header]
                  IN  [early |-> FALSE,
                       token |-> IF v.strip_prefix # None
                                 THEN StripPrefix(raw, v.strip_prefix[1])
                                 ELSE raw]

\* the handler up to from_utf8: an early response, or the token string
HandlerPre(vOpt, headers) ==
    IF vOpt = None
    THEN [early |-> TRUE, resp |-> Unauthorized("Token could not be validated")]
    ELSE LET v == vOpt[1]
         IN  IF v.header \notin DOMAIN headers
             THEN [early |-> TRUE,
                   resp |-> Unauthorized("Header " \o v.header \o " not found")]
             ELSE LET raw == headers[v.header]
                      token == IF v.strip_prefix # None
                               THEN StripPrefix(raw, v.strip_prefix[1])
                               ELSE raw
                  IN  IF ~ IsUtf8(token)
                      THEN [early |-> TRUE,
                            resp |-> Unauthorized("Token is not valid UTF-8")]
                      ELSE [early |-> FALSE, token |-> token]

\* SystemTime::elapsed() fails when the time read is later than the clock
ElapsedFails(last_refresh, clock) == last_refresh > clock

\* duration_since_last_update > validator.authority().update_interval()
ShouldRefresh(last_refresh, clock, update_interval) ==
    clock - last_refresh > update_interval

\* the handler from authority.validate to the response
HandlerPost(v, token, wire, keys, order) ==
    LET validated == Validate(token, wire, keys)
    IN  IF ~ validated.ok THEN Unauthorized("Token isn't valid")
        ELSE LET req_ == EnforceRequired(v.required_claims, 1, v.map_claims,
                                         validated.claims, EmptyMap, {})
             IN  IF req_.failed THEN Unauthorized(req_.body)
                 ELSE OkResponse(ProjectMapped(order, 1, v.map_claims,
                                     validated.claims, req_.headers,
                                     req_.already_inserted))

\* the whole handler on one view of the JWKS entry: the response, and
\* whether a detached refresh of the entry is spawned
Handler(vOpt, headers, wire, entry, clock, order) ==
    LET pre == HandlerPre(vOpt, headers)
    IN  IF pre.early THEN [resp |-> pre.resp, spawn |-> FALSE]
        ELSE IF ElapsedFails(entry.last_refresh, clock)
             THEN [resp |-> Panicked, spawn |-> FALSE]
             ELSE [resp |-> HandlerPost(vOpt[1], pre.token, wire, entry.keys,
                                        order),
                   spawn |-> ShouldRefresh(entry.last_refresh, clock,
                                           vOpt[1].authority.update_interval)]

---------------------------------------------------------------------------
(* Configurations *)

\* Result<Config, ValidationFileError>
Ok(cfg) == [ok |-> TRUE, cfg |-> cfg]
Err(e) == [ok |-> FALSE, err |-> e]

\* "B " stands for the usual "Bearer " prefix
PrefixB == <<66, 32>>
Alice == <<97>>

CfgA ==
    [authorities |-> ("a1" :> [jwks_url |-> "u1", update_interval |-> None]),
     validators |->
        ("v1" :> [authority |-> "a1", header |-> "Authorization",
                  header_prefix |-> Some(PrefixB),
                  required_claims |-> <<[name |-> "sub", value |-> AnyValue]>>,
                  map_claims |-> ("sub" :> "x-user")])]

CfgB ==
    [authorities |-> ("a2" :> [jwks_url |-> "u2", update_interval |-> Some(7200)]),
     validators |->
        ("v1" :> [authority |-> "a2", header |-> "Authorization",
                  header_prefix |-> None,
                  required_claims |-> <<>>,
                  map_claims |-> EmptyMap]
         @@
         "v2" :> [authority |-> "a2", header |-> "Authorization",
                  header_prefix |-> Some(PrefixB),
                  required_claims |-> <<[name |-> "sub", value |-> Single(Alice)]>>,
                  map_claims |-> EmptyMap])]

\* the contents the watched file can have
Files == {"A", "B", "bad"}

\* Config::load on the file's content
ConfigLoad(f) ==
    CASE f = "A" -> Ok(CfgA)
      [] f = "B" -> Ok(CfgB)
      [] f = "bad" -> Err("CircularTemplate")

---------------------------------------------------------------------------
(* The JWKS store, validators/jwks.rs *)

\* JwksState::new: no keys, never refreshed
JwksStateNew ==
    [keys |-> {}, etag |-> None, last_modified |-> None, last_refresh |-> 0]

\* variant: the store is rebuilt from the configuration, with new entries
JwksGetAllRebuilt(store, cfg) ==
    [u \in {cfg.authorities[n].jwks_url : n \in DOMAIN cfg.authorities} |->
        JwksStateNew]

\* JwksStore::get for every jwks_url of the configuration: insert if absent
JwksGetAll(store, cfg) ==
    LET urls == {cfg.authorities[n].jwks_url : n \in DOMAIN cfg.authorities}
    IN  [u \in DOMAIN store \cup urls |->
            IF u \in DOMAIN store THEN store[u] ELSE JwksStateNew]

\* what the remote JWKS endpoint answers
RefreshOutcomes == {"ok", "not_modified", "error"}

\* JwksState::refresh on the response received
Refreshed(entry, outcome, clock) ==
    IF outcome = "ok"
    THEN [keys |-> {"k1"}, etag |-> Some("e1"), last_modified |-> None,
          last_refresh |-> clock]
    ELSE entry

\* the entries refresh_all refreshes
RefreshAllTargets(store) == DOMAIN store

\* variant: every entry is refreshed, as by refresh_all
RefreshNewTargetsAll(store) == DOMAIN store

\* the entries refresh_new refreshes
RefreshNewTargets(store) == {u \in DOMAIN store : store[u].last_refresh < 3600}

---------------------------------------------------------------------------
(* Store::load and Store::clear, validators/store.rs *)

AuthorityNew(name, jwks_, update_interval) ==
    [name |-> name, jwks |-> jwks_, update_interval |-> update_interval]

ValidatorNew(name, authority, header, strip_prefix, required_claims, map_claims) ==
    [name |-> name, authority |-> authority, header |-> header,
     strip_prefix |-> strip_prefix, required_claims |-> required_claims,
     map_claims |-> map_claims]

LoadAuthorities(cfg) ==
    [n \in DOMAIN cfg.authorities |->
        AuthorityNew(n, cfg.authorities[n].jwks_url,
                     IF cfg.authorities[n].update_interval = None
                     THEN DefaultUpdateInterval
                     ELSE cfg.authorities[n].update_interval[1])]

LoadValidators(cfg) ==
    LET auths == LoadAuthorities(cfg)
    IN  [n \in DOMAIN cfg.validators |->
            LET v == cfg.validators[n]
            IN  ValidatorNew(n, auths[v.authority], v.header, v.header_prefix,
                             v.required_claims, v.map_claims)]

\* variant: the authority store is left as it is
ClearedAuthoritiesKept == authorities

\* AuthorityStore::clear: an empty map is stored
ClearedAuthorities == EmptyMap

\* variant: the validator store is left as it is
ClearedValidatorsKept == validators

\* ValidatorStore::clear: an empty map is stored
ClearedValidators == EmptyMap

---------------------------------------------------------------------------
(* The system: watcher, orchestrator, JWKS refreshes, requests *)

IdleReq == [pc |-> "idle"]
NoInput == [set |-> FALSE]
NoOutput == [done |-> FALSE]

Init ==
    /\ data = [ver |-> 0, val |-> Err("unloaded")]
    /\ waiter = "none"
    /\ pc = "new"
    /\ cur = [ver |-> 0, val |-> Err("unloaded")]
    /\ states = "Starting"
    /\ authorities = EmptyMap
    /\ validators = EmptyMap
    /\ jwks = EmptyMap
    /\ orcPending = {}
    /\ spawned = [u \in {"u1", "u2"} |-> 0]
    /\ now = BootTime
    /\ listening = FALSE
    /\ req = IdleReq
    /\ hin = NoInput
    /\ hout = NoOutput

\* the wall clock advances
Tick ==
    /\ now < BootTime + MaxTicks * TickStep
    /\ now' = now + TickStep
    /\ UNCHANGED <<data, waiter, pc, cur, states, authorities, validators, jwks,
                   orcPending, spawned, listening, req, hin, hout>>

\* Reloadable::new: the initial load is stored and the watcher starts
ReloadableNew(f) ==
    /\ pc = "new"
    /\ data' = [ver |-> 1, val |-> ConfigLoad(f)]
    /\ pc' = "boot_get"
    /\ UNCHANGED <<waiter, cur, states, authorities, validators, jwks,
                   orcPending, spawned, now, listening, req, hin, hout>>

\* variant: the failure flips the lifecycle state
ReloadableNewFailsFlips ==
    /\ pc = "new"
    /\ pc' = "aborted"
    /\ states' = "FaultyConfig"
    /\ UNCHANGED <<data, waiter, cur, authorities, validators, jwks,
                   orcPending, spawned, now, listening, req, hin, hout>>

\* Reloadable::new fails (the watcher cannot be created): `?` returns the
\* error from start_file_watcher and async_main ends
ReloadableNewFails ==
    /\ pc = "new"
    /\ pc' = "aborted"
    /\ UNCHANGED <<data, waiter, cur, states, authorities, validators, jwks,
                   orcPending, spawned, now, listening, req, hin, hout>>

\* the watcher callback on a relevant event: reload, store, notify_waiters
FileEvent(f) ==
    /\ pc \notin {"new", "aborted"}
    /\ data.ver < 1 + MaxEvents
    /\ data' = [ver |-> data.ver + 1, val |-> ConfigLoad(f)]
    /\ waiter' = IF waiter = "registered" THEN "notified" ELSE waiter
    /\ UNCHANGED <<pc, cur, states, authorities, validators, jwks, orcPending,
                   spawned, now, listening, req, hin, hout>>

\* variant: the value is not read again: the one read before is matched
OrcGetStale(at, onOk, onErr) ==
    /\ pc = at
    /\ cur' = IF cur.ver = 0 THEN data ELSE cur
    /\ pc' = IF cur'.val.ok THEN onOk ELSE onErr
    /\ UNCHANGED <<data, waiter, states, authorities, validators, jwks,
                   orcPending, spawned, now, listening, req, hin, hout>>

\* match &*reloadable.get()
OrcGet(at, onOk, onErr) ==
    /\ pc = at
    /\ cur' = data
    /\ pc' = IF data.val.ok THEN onOk ELSE onErr
    /\ UNCHANGED <<data, waiter, states, authorities, validators, jwks,
                   orcPending, spawned, now, listening, req, hin, hout>>

\* Store::load, first half: the maps are built (JwksStore::get inserts the
\* missing entries) and this.authorities.update(authorities)
OrcLoadAuthorities(at, next) ==
    /\ pc = at
    /\ jwks' = JwksGetAll(jwks, cur.val.cfg)
    /\ authorities' = LoadAuthorities(cur.val.cfg)
    /\ pc' = next
    /\ UNCHANGED <<data, waiter, cur, states, validators, orcPending, spawned,
                   now, listening, req, hin, hout>>

\* Store::load, second half: this.validators.update(validators)
OrcLoadValidators(at, next) ==
    /\ pc = at
    /\ validators' = LoadValidators(cur.val.cfg)
    /\ pc' = next
    /\ UNCHANGED <<data, waiter, cur, states, authorities, jwks, orcPending,
                   spawned, now, listening, req, hin, hout>>

\* refresh_all() / refresh_new(): the futures of the selected entries
OrcRefreshStart(at, targets, next) ==
    /\ pc = at
    /\ orcPending' = targets
    /\ pc' = next
    /\ UNCHANGED <<data, waiter, cur, states, authorities, validators, jwks,
                   spawned, now, listening, req, hin, hout>>

\* one of the joined refreshes completes
OrcRefreshOne(u, outcome) ==
    /\ pc \in {"boot_refreshing", "refreshing"}
    /\ u \in orcPending
    /\ jwks' = [jwks EXCEPT ![u] = Refreshed(@, outcome, now)]
    /\ orcPending' = orcPending \ {u}
    /\ UNCHANGED <<data, waiter, pc, cur, states, authorities, validators,
                   spawned, now, listening, req, hin, hout>>

\* variant: the refreshes are started and not awaited
OrcRefreshDoneNoAwait(at, next) ==
    /\ pc = at
    /\ pc' = next
    /\ UNCHANGED <<data, waiter, cur, states, authorities, validators, jwks,
                   orcPending, spawned, now, listening, req, hin, hout>>

\* join_all(..).await returns
OrcRefreshDone(at, next) ==
    /\ pc = at
    /\ orcPending = {}
    /\ pc' = next
    /\ UNCHANGED <<data, waiter, cur, states, authorities, validators, jwks,
                   orcPending, spawned, now, listening, req, hin, hout>>

\* states.set(..)
OrcSetState(at, s, next) ==
    /\ pc = at
    /\ states' = s
    /\ pc' = next
    /\ UNCHANGED <<data, waiter, cur, authorities, validators, jwks,
                   orcPending, spawned, now, listening, req, hin, hout>>

\* variant: the reload loop is spawned only after a first value that is Ok
OrcSpawnOnlyOk ==
    /\ pc = "boot_spawn"
    /\ cur.val.ok
    /\ pc' = "loop"
    /\ UNCHANGED <<data, waiter, cur, states, authorities, validators, jwks,
                   orcPending, spawned, now, listening, req, hin, hout>>

\* tokio::spawn of the reload loop; start_file_watcher returns Ok(())
OrcSpawn ==
    /\ pc = "boot_spawn"
    /\ pc' = "loop"
    /\ UNCHANGED <<data, waiter, cur, states, authorities, validators, jwks,
                   orcPending, spawned, now, listening, req, hin, hout>>

\* reloadable.wait(): the Notified future is created
LoopWait ==
    /\ pc = "loop"
    /\ waiter' = "registered"
    /\ pc' = "waiting"
    /\ UNCHANGED <<data, cur, states, authorities, validators, jwks,
                   orcPending, spawned, now, listening, req, hin, hout>>

\* notified().await returns once notify_waiters() has woken the future
LoopWake ==
    /\ pc = "waiting"
    /\ waiter = "notified"
    /\ waiter' = "none"
    /\ pc' = "get"
    /\ UNCHANGED <<data, cur, states, authorities, validators, jwks,
                   orcPending, spawned, now, listening, req, hin, hout>>

\* Store::clear, first half: self.inner.authorities.clear()
LoopClearAuthorities ==
    /\ pc = "clear_authorities"
    /\ authorities' = ClearedAuthorities
    /\ pc' = "clear_validators"
    /\ UNCHANGED <<data, waiter, cur, states, validators, jwks, orcPending,
                   spawned, now, listening, req, hin, hout>>

\* Store::clear, second half: self.inner.validators.clear()
LoopClearValidators ==
    /\ pc = "clear_validators"
    /\ validators' = ClearedValidators
    /\ pc' = "loop"
    /\ UNCHANGED <<data, waiter, cur, states, authorities, jwks, orcPending,
                   spawned, now, listening, req, hin, hout>>

\* start_file_watcher up to the spawn
Boot ==
    \/ \E f \in Files : ReloadableNew(f)
    \/ ReloadableNewFails
    \/ OrcGet("boot_get", "boot_load_authorities", "boot_faulty")
    \/ OrcLoadAuthorities("boot_load_authorities", "boot_load_validators")
    \/ OrcLoadValidators("boot_load_validators", "boot_refresh_all")
    \/ OrcRefreshStart("boot_refresh_all", RefreshAllTargets(jwks), "boot_refreshing")
    \/ OrcRefreshDone("boot_refreshing", "boot_set_running")
    \/ OrcSetState("boot_set_running", "Running", "boot_spawn")
    \/ OrcSetState("boot_faulty", "FaultyConfig", "boot_spawn")
    \/ OrcSpawn

\* the spawned reload loop
ReloadLoop ==
    \/ LoopWait
    \/ LoopWake
    \/ OrcGet("get", "load_authorities", "set_faulty")
    \/ OrcLoadAuthorities("load_authorities", "load_validators")
    \/ OrcLoadValidators("load_validators", "refresh_new")
    \/ OrcRefreshStart("refresh_new", RefreshNewTargets(jwks), "refreshing")
    \/ OrcRefreshDone("refreshing", "loop")
    \/ OrcSetState("set_faulty", "FaultyConfig", "clear_authorities")
    \/ LoopClearAuthorities
    \/ LoopClearValidators

Orchestrator ==
    \/ Boot
    \/ ReloadLoop
    \/ \E u \in {"u1", "u2"}, o \in RefreshOutcomes : OrcRefreshOne(u, o)

\* variant: the listener is bound while start_file_watcher still runs
BindEarly ==
    /\ pc \notin {"new", "aborted"}
    /\ ~ listening
    /\ listening' = TRUE
    /\ UNCHANGED <<data, waiter, pc, cur, states, authorities, validators, jwks,
                   orcPending, spawned, now, req, hin, hout>>

\* TcpListener::bind and axum::serve, after start_file_watcher has returned
Bind ==
    /\ pc \notin {"new", "aborted", "boot_get", "boot_load_authorities",
                  "boot_load_validators", "boot_refresh_all", "boot_refreshing",
                  "boot_set_running", "boot_faulty", "boot_spawn"}
    /\ ~ listening
    /\ listening' = TRUE
    /\ UNCHANGED <<data, waiter, pc, cur, states, authorities, validators, jwks,
                   orcPending, spawned, now, req, hin, hout>>

\* the reload loop has applied an Err value (or the first value was Err) and
\* has not read a later value yet
Faulted ==
    /\ ~ cur.val.ok
    /\ pc \in {"boot_spawn", "loop", "waiting", "get"}

\* the JWT the requests of the system carry, and their headers
SysWire ==
    [compact |-> <<74>>, kid |-> "k1", verifies |-> TRUE,
     claims |-> [aud |-> None, iss |-> None, sub |-> Some(Alice), exp |-> None,
                 nbf |-> None, other |-> EmptyMap]]

SysHeaders == {EmptyMap, "Authorization" :> (PrefixB \o <<74>>)}

\* the orders in which a HashMap can yield the keys of map
Orders(map) ==
    LET S == DOMAIN map
    IN  {o \in [1..Cardinality(S) -> S] :
            \A i, j \in 1..Cardinality(S) : i # j => o[i] # o[j]}

\* ValidatorStore::get
ValidatorsGet(store, name) ==
    IF name \in DOMAIN store THEN Some(store[name]) ELSE None

\* a request to /auth/<name> arrives: validators.get(&template).
\* at_faulty records whether the lookup happened while Faulted.
ReqLookup(name, headers) ==
    /\ listening
    /\ req.pc = "idle"
    /\ req' = [pc |-> "looked", name |-> name, headers |-> headers,
               validator |-> ValidatorsGet(validators, name),
               token |-> <<>>, at_faulty |-> Faulted, resp |-> Panicked]
    /\ UNCHANGED <<data, waiter, pc, cur, states, authorities, validators, jwks,
                   orcPending, spawned, now, listening, hin, hout>>

\* variant: single flight, no refresh is spawned while one is in flight
ReqCheckSingleFlight(cap) ==
    /\ req.pc = "looked"
    /\ LET pre == HandlerPre(req.validator, req.headers)
       IN  IF pre.early
           THEN /\ req' = [req EXCEPT !.pc = "done", !.resp = pre.resp]
                /\ UNCHANGED spawned
           ELSE LET v == req.validator[1]
                    u == v.authority.jwks
                IN  IF ElapsedFails(jwks[u].last_refresh, now)
                    THEN /\ req' = [req EXCEPT !.pc = "done", !.resp = Panicked]
                         /\ UNCHANGED spawned
                    ELSE /\ req' = [req EXCEPT !.pc = "fresh", !.token = pre.token]
                         /\ IF ShouldRefresh(jwks[u].last_refresh, now,
                                             v.authority.update_interval)
                               /\ spawned[u] = 0
                            THEN spawned' = [spawned EXCEPT ![u] = @ + 1]
                            ELSE UNCHANGED spawned
    /\ UNCHANGED <<data, waiter, pc, cur, states, authorities, validators, jwks,
                   orcPending, now, listening, hin, hout>>

\* variant: the freshness check and the spawn come right after the lookup,
\* before the header and the UTF-8 checks
ReqCheckSpawnFirst(cap) ==
    /\ req.pc = "looked"
    /\ LET pre == HandlerPre(req.validator, req.headers)
       IN  IF req.validator = None
           THEN /\ req' = [req EXCEPT !.pc = "done", !.resp = pre.resp]
                /\ UNCHANGED spawned
           ELSE LET v == req.validator[1]
                    u == v.authority.jwks
                IN  IF ElapsedFails(jwks[u].last_refresh, now)
                    THEN /\ req' = [req EXCEPT !.pc = "done", !.resp = Panicked]
                         /\ UNCHANGED spawned
                    ELSE /\ req' = IF pre.early
                                   THEN [req EXCEPT !.pc = "done",
                                                    !.resp = pre.resp]
                                   ELSE [req EXCEPT !.pc = "fresh",
                                                    !.token = pre.token]
                         /\ IF ShouldRefresh(jwks[u].last_refresh, now,
                                             v.authority.update_interval)
                            THEN /\ spawned[u] < cap
                                 /\ spawned' = [spawned EXCEPT ![u] = @ + 1]
                            ELSE UNCHANGED spawned
    /\ UNCHANGED <<data, waiter, pc, cur, states, authorities, validators, jwks,
                   orcPending, now, listening, hin, hout>>

\* header, prefix and UTF-8 checks, then the freshness check that may spawn
\* a detached refresh of the authority's JWKS entry; cap bounds the
\* refreshes in flight per uri
ReqCheckUpTo(cap) ==
    /\ req.pc = "looked"
    /\ LET pre == HandlerPre(req.validator, req.headers)
       IN  IF pre.early
           THEN /\ req' = [req EXCEPT !.pc = "done", !.resp = pre.resp]
                /\ UNCHANGED spawned
           ELSE LET v == req.validator[1]
                    u == v.authority.jwks
                IN  IF ElapsedFails(jwks[u].last_refresh, now)
                    THEN /\ req' = [req EXCEPT !.pc = "done", !.resp = Panicked]
                         /\ UNCHANGED spawned
                    ELSE /\ req' = [req EXCEPT !.pc = "fresh", !.token = pre.token]
                         /\ IF ShouldRefresh(jwks[u].last_refresh, now,
                                             v.authority.update_interval)
                            THEN /\ spawned[u] < cap
                                 /\ spawned' = [spawned EXCEPT ![u] = @ + 1]
                            ELSE UNCHANGED spawned
    /\ UNCHANGED <<data, waiter, pc, cur, states, authorities, validators, jwks,
                   orcPending, now, listening, hin, hout>>

ReqCheck == ReqCheckUpTo(MaxSpawned)

\* authority.validate on the keys the entry holds now, claim enforcement,
\* projection, response
ReqValidate ==
    /\ req.pc = "fresh"
    /\ LET v == req.validator[1]
       IN  \E order \in Orders(v.map_claims) :
              req' = [req EXCEPT !.pc = "done",
                        !.resp = HandlerPost(v, req.token, SysWire,
                                             jwks[v.authority.jwks].keys, order)]
    /\ UNCHANGED <<data, waiter, pc, cur, states, authorities, validators, jwks,
                   orcPending, spawned, now, listening, hin, hout>>

\* the response has been written
ReqDone ==
    /\ req.pc = "done"
    /\ req' = IdleReq
    /\ UNCHANGED <<data, waiter, pc, cur, states, authorities, validators, jwks,
                   orcPending, spawned, now, listening, hin, hout>>

\* a detached jwks.refresh() spawned by a request completes
SpawnedRefresh(u, outcome) ==
    /\ spawned[u] > 0
    /\ jwks' = [jwks EXCEPT ![u] = Refreshed(@, outcome, now)]
    /\ spawned' = [spawned EXCEPT ![u] = @ - 1]
    /\ UNCHANGED <<data, waiter, pc, cur, states, authorities, validators,
                   orcPending, now, listening, req, hin, hout>>

Requests ==
    \/ \E name \in {"v1", "v2"}, headers \in SysHeaders : ReqLookup(name, headers)
    \/ ReqCheck
    \/ ReqValidate
    \/ ReqDone

Next ==
    \/ Tick
    \/ \E f \in Files : FileEvent(f)
    \/ Orchestrator
    \/ Bind
    \/ Requests
    \/ \E u \in {"u1", "u2"}, o \in RefreshOutcomes : SpawnedRefresh(u, o)

Spec == Init /\ [][Next]_vars

\* the runtime schedules the orchestrator's task and the refreshes it awaits;
\* file events and requests come from outside and need not happen
FairSpec == Spec /\ WF_vars(Orchestrator)

---------------------------------------------------------------------------
(* The handler on enumerated inputs *)

\* required-claim entries of one validator
MaxRequired == 2

Bob == <<98>>
Str42 == <<52, 50>>
Str12 == <<49, 50>>
\* a value with a control byte, a DEL and a byte >= 128 (UTF-8 for U+00E9)
Odd == <<7, 127, 195, 169>>

HEntries ==
    {[name |-> "aud", value |-> AnyValue],
     [name |-> "aud", value |-> Single(Alice)],
     [name |-> "aud", value |-> Multiple(<<Bob, Alice>>)],
     [name |-> "iss", value |-> Single(Alice)],
     [name |-> "sub", value |-> AnyValue],
     [name |-> "sub", value |-> Single(Alice)],
     [name |-> "exp", value |-> Single(Str12)],
     [name |-> "nbf", value |-> AnyValue],
     [name |-> "grp", value |-> AnyValue],
     [name |-> "grp", value |-> Single(Str42)],
     [name |-> "grp", value |-> Multiple(<<StrTrue, <<>>, Alice>>)],
     [name |-> "grp", value |-> Single(StrFalse)]}

RequiredLists ==
    UNION {[1..n -> HEntries] : n \in 0..MaxRequired}

HMaps ==
    {EmptyMap,
     ("sub" :> "x-user") @@ ("grp" :> "x-grp") @@ ("aud" :> "x-aud"),
     ("sub" :> "x-user") @@ ("grp" :> "x-user") @@ ("exp" :> "x-exp")}

HAuthority == AuthorityNew("a1", "u1", DefaultUpdateInterval)

JsonValues ==
    {[kind |-> "null"], [kind |-> "bool", b |-> TRUE], [kind |-> "bool", b |-> FALSE],
     [kind |-> "number", n |-> 42], [kind |-> "number", n |-> 0 - 42],
     [kind |-> "string", s |-> Alice], [kind |-> "string", s |-> Odd],
     [kind |-> "array"], [kind |-> "object"]}

OtherMaps == {EmptyMap} \cup {("grp" :> v) : v \in JsonValues}

Claims(aud, iss, sub, exp, nbf, other) ==
    [aud |-> aud, iss |-> iss, sub |-> sub, exp |-> exp, nbf |-> nbf,
     other |-> other]

HAuds == {None, Some(<<>>), Some(<<Alice>>), Some(<<Bob, Alice>>)}

\* the claims of the validated tokens
HClaims ==
    {Claims(aud, Some(Alice), sub, Some(12), Some(7), other) :
        aud \in HAuds, sub \in {None, Some(Alice), Some(Bob)},
        other \in {EmptyMap, "grp" :> [kind |-> "number", n |-> 42],
                   "grp" :> [kind |-> "array"]}}
    \cup
    {Claims(Some(<<Alice>>), iss, Some(Alice), exp, None, other) :
        iss \in {None, Some(Bob)}, exp \in {None, Some(13)}, other \in OtherMaps}

Wire(kid, verifies, claims) ==
    [compact |-> <<74>>, kid |-> kid, verifies |-> verifies, claims |-> claims]

WarmEntry ==
    [keys |-> {"k1"}, etag |-> Some("e1"), last_modified |-> None,
     last_refresh |-> BootTime]

HInput(vOpt, headers, wire, entry, clock) ==
    [set |-> TRUE, vOpt |-> vOpt, headers |-> headers, wire |-> wire,
     entry |-> entry, clock |-> clock]

\* a well-formed request with a verifying token: every required list, every
\* projection map, every set of claims
ClaimInputs ==
    {HInput(Some(ValidatorNew("v1", HAuthority, "Authorization", Some(PrefixB),
                              rcs, map)),
            "Authorization" :> (PrefixB \o <<74>>),
            Wire("k1", TRUE, claims), WarmEntry, BootTime) :
        rcs \in RequiredLists, map \in HMaps, claims \in HClaims}

HHeaders ==
    {EmptyMap,
     "Cookie" :> <<74>>,
     "Authorization" :> (PrefixB \o <<74>>),
     "Authorization" :> <<74>>,
     "Authorization" :> PrefixB,
     "Authorization" :> <<75>>,
     "Authorization" :> <<255>>,
     "Authorization" :> (PrefixB \o <<195>>),
     "Authorization" :> <<195, 169>>}

\* requests that fail before or in Authority::validate, and those that pass
RequestInputs ==
    {HInput(vOpt, headers, Wire(kid, verifies, claims), entry, clock) :
        vOpt \in {None} \cup
                 {Some(ValidatorNew("v1", HAuthority, "Authorization", strip,
                                    rcs, ("sub" :> "x-user"))) :
                     strip \in {None, Some(PrefixB)},
                     rcs \in {<<>>, <<[name |-> "sub", value |-> AnyValue]>>,
                              <<[name |-> "grp", value |-> Single(Str42)]>>}},
        headers \in HHeaders,
        kid \in {"k1", "k2"},
        verifies \in BOOLEAN,
        claims \in {Claims(None, None, None, None, None, EmptyMap),
                    Claims(None, None, Some(Alice), None, None,
                           "grp" :> [kind |-> "array"])},
        entry \in {JwksStateNew, WarmEntry},
        clock \in {BootTime, BootTime + TickStep}}

HandlerInputs == ClaimInputs \cup RequestInputs

HInit ==
    /\ data = [ver |-> 0, val |-> Err("unloaded")]
    /\ waiter = "none"
    /\ pc = "new"
    /\ cur = [ver |-> 0, val |-> Err("unloaded")]
    /\ states = "Starting"
    /\ authorities = EmptyMap
    /\ validators = EmptyMap
    /\ jwks = EmptyMap
    /\ orcPending = {}
    /\ spawned = [u \in {"u1", "u2"} |-> 0]
    /\ now = BootTime
    /\ listening = FALSE
    /\ req = IdleReq
    /\ hin \in HandlerInputs
    /\ hout = NoOutput

\* the handler runs on the input
HApply ==
    /\ hin.set
    /\ ~ hout.done
    /\ \E order \in (IF hin.vOpt = None THEN {<<>>}
                     ELSE Orders(hin.vOpt[1].map_claims)) :
          hout' = [done |-> TRUE,
                   out |-> Handler(hin.vOpt, hin.headers, hin.wire, hin.entry,
                                   hin.clock, order)]
    /\ UNCHANGED <<sysVars, hin>>

HandlerNext == HApply

HandlerSpec == HInit /\ [][HandlerNext]_vars

---------------------------------------------------------------------------
(* Properties of the reload loop *)

\* the reload loop has applied the Ok value it read: load has returned
OkApplied ==
    /\ cur.val.ok
    /\ pc \in {"refresh_new", "refreshing", "loop", "waiting", "get"}

\* C1: whenever the reload loop has processed a reload whose value is Ok, the
\* lifecycle state is Running once that reload has been applied (also when
\* the reload before it failed and left FaultyConfig).
C1_OkReloadGivesRunning == OkApplied => states = "Running"

\* C2: once the reload loop has applied an Err value, the lifecycle state is
\* FaultyConfig and both stores are empty, the loop is still running, and
\* every request whose lookup happens from then on (until the loop reads a
\* later value) is answered 401.
C2_ErrClearsAndRejects ==
    /\ Faulted =>
          /\ states = "FaultyConfig"
          /\ authorities = EmptyMap
          /\ validators = EmptyMap
          /\ pc # "aborted"
    /\ (req.pc \in {"looked", "fresh", "done"} /\ req.at_faulty) =>
          /\ req.validator = None
          /\ req.pc # "fresh"
          /\ req.pc = "done" =>
                /\ req.resp.status = 401
                /\ req.resp.body = "Token could not be validated"

\* a request for v1, which an earlier configuration served, is answered 401
\* after a reload event brought an Err value
C2_Witness ==
    /\ Faulted
    /\ cur.ver >= 2
    /\ jwks # EmptyMap
    /\ req.pc = "done"
    /\ req.at_faulty
    /\ req.name = "v1"
    /\ "Authorization" \in DOMAIN req.headers
    /\ req.resp.status = 401

\* the pairs of maps that Store::load and Store::clear publish
PublishedPairs ==
    {<<EmptyMap, EmptyMap>>}
        \cup {<<LoadAuthorities(c), LoadValidators(c)>> : c \in {CfgA, CfgB}}

\* C3: a reader that looks at the authority store and the validator store
\* sees the complete pair of one load (or of one clear), never the new map of
\* one store with the old map of the other.
C3_SnapshotPairAtomic == <<authorities, validators>> \in PublishedPairs

\* C4: every file-system event is eventually followed by the orchestrator
\* applying (load or clear) the value the event stored, or a later one, also
\* when the event fires while the orchestrator is not suspended in wait().
C4_EveryEventApplied ==
    \A n \in 2..(1 + MaxEvents) :
        (data.ver = n) ~> (cur.ver >= n /\ (OkApplied \/ Faulted))

---------------------------------------------------------------------------
(* Properties of the request handler *)

Resp == hout.out.resp
HValidator == hin.vOpt[1]
HTokenClaims == hin.wire.claims

Range(seq) == {seq[i] : i \in 1..Len(seq)}

\* the bytes left of the header value once the configured prefix "B " is
\* dropped from its front
TokenBytes ==
    LET raw == hin.headers["Authorization"]
    IN  IF HValidator.strip_prefix # None /\ Len(raw) >= 2
           /\ raw[1] = 66 /\ raw[2] = 32
        THEN [i \in 1..(Len(raw) - 2) |-> raw[i + 2]]
        ELSE raw

\* the byte strings among the inputs that are not UTF-8: a lone 0xFF, a lead
\* byte 0xC3 without its continuation byte (alone, or after "B ")
NotUtf8 == {<<255>>, <<195>>, <<66, 32, 195>>}

\* lookup, header, UTF-8 and Authority::validate all pass on the input
PassesToClaims ==
    /\ hin.vOpt # None
    /\ "Authorization" \in DOMAIN hin.headers
    /\ TokenBytes = <<74>>
    /\ hin.wire.kid \in hin.entry.keys
    /\ hin.wire.verifies

\* C5: the response status of every request is 200 or 401, whatever the
\* validator store, the JWKS entry and the token hold.
C5_StatusOkOrUnauthorized == hout.done => Resp.status \in {200, 401}

\* an array-valued required claim, a missing key, a bad signature and a
\* malformed token have each been answered
C5_Witness ==
    /\ hout.done
    /\ Resp.status = 401
    /\ Resp.body = "Token contains invalid claim"
    /\ hin.vOpt # None
    /\ HTokenClaims.other = ("grp" :> [kind |-> "array"])

\* the failure the fixed order of checks selects, "claims" when all pass
FirstCheckFailing ==
    IF hin.vOpt = None THEN "Token could not be validated"
    ELSE IF "Authorization" \notin DOMAIN hin.headers
         THEN "Header Authorization not found"
    ELSE IF TokenBytes \in NotUtf8 THEN "Token is not valid UTF-8"
    ELSE IF ~ PassesToClaims THEN "Token isn't valid"
    ELSE "claims"

\* C6: the handler answers with the first failing check in the order
\* validator lookup, header presence, UTF-8 of the stripped token,
\* Authority::validate; required claims are examined only after these pass.
C6_ChecksInOrder ==
    hout.done =>
        IF FirstCheckFailing = "claims"
        THEN Resp.body \notin {"Token could not be validated",
                               "Header Authorization not found",
                               "Token is not valid UTF-8", "Token isn't valid"}
        ELSE /\ Resp.status = 401
             /\ Resp.body = FirstCheckFailing
             /\ Resp.headers = EmptyMap

\* the prefix is stripped and what is left is not UTF-8, although the key
\* is missing and the signature does not verify either
C6_Witness ==
    /\ hout.done
    /\ hin.vOpt # None
    /\ hin.headers = ("Authorization" :> (PrefixB \o <<195>>))
    /\ HValidator.strip_prefix = Some(PrefixB)
    /\ ~ hin.wire.verifies
    /\ hin.entry.keys = {}
    /\ Resp.body = "Token is not valid UTF-8"

\* the text a scalar JSON value is compared as
ScalarText(v) ==
    CASE v = [kind |-> "null"] -> <<>>
      [] v = [kind |-> "bool", b |-> TRUE] -> <<116, 114, 117, 101>>
      [] v = [kind |-> "bool", b |-> FALSE] -> <<102, 97, 108, 115, 101>>
      [] v = [kind |-> "number", n |-> 42] -> <<52, 50>>
      [] v = [kind |-> "number", n |-> 0 - 42] -> <<45, 52, 50>>
      [] v.kind = "string" -> v.s

\* the decimal text of the exp and nbf values among the inputs
SecondsText(n) ==
    CASE n = 7 -> <<55>>
      [] n = 12 -> <<49, 50>>
      [] n = 13 -> <<49, 51>>

\* None accepts any value, Single an equal one, Multiple any listed one
Accepts(value, s) ==
    \/ value.kind = "None"
    \/ value.kind = "Single" /\ s = value.v
    \/ value.kind = "Multiple" /\ s \in Range(value.vs)

StdClaims == {"aud", "iss", "sub", "exp", "nbf"}

ClaimPresent(name, claims) ==
    CASE name = "aud" -> claims.aud # None
      [] name = "iss" -> claims.iss # None
      [] name = "sub" -> claims.sub # None
      [] name = "exp" -> claims.exp # None
      [] name = "nbf" -> claims.nbf # None
      [] OTHER -> name \in DOMAIN claims.other

\* the texts a present claim offers for matching: each audience for aud,
\* the value's text otherwise
ClaimTexts(name, claims) ==
    CASE name = "aud" -> Range(claims.aud[1])
      [] name = "iss" -> {claims.iss[1]}
      [] name = "sub" -> {claims.sub[1]}
      [] name = "exp" -> {SecondsText(claims.exp[1])}
      [] name = "nbf" -> {SecondsText(claims.nbf[1])}
      [] OTHER -> {ScalarText(claims.other[name])}

MissingBody(name) ==
    CASE name = "aud" -> "Token is missing audience claim"
      [] name = "iss" -> "Token is missing issuer claim"
      [] name = "sub" -> "Token is missing subject claim"
      [] name = "exp" -> "Token is missing expiration claim"
      [] name = "nbf" -> "Token is missing not before claim"
      [] name = "grp" -> "Token is missing required grp claim"

MismatchBody(name) ==
    CASE name = "aud" -> "Token doesn't match required audience"
      [] name = "iss" -> "Token doesn't match required issuer"
      [] name = "sub" -> "Token doesn't match required subject"
      [] name = "exp" -> "Token doesn't match required expiration"
      [] name = "nbf" -> "Token doesn't match required not before"
      [] name = "grp" -> "Token doesn't match required grp claim"

\* a present claim meets its constraint: None is met by any value (for aud by
\* presence alone), Single and Multiple by one of the claim's texts
ConstraintMet(entry, claims) ==
    \/ entry.value.kind = "None"
    \/ \E s \in ClaimTexts(entry.name, claims) : Accepts(entry.value, s)

\* "ok" when the entry is present and matches, else the body of its failure
Verdict(entry, claims) ==
    IF ~ ClaimPresent(entry.name, claims) THEN MissingBody(entry.name)
    ELSE IF entry.name \notin StdClaims
            /\ claims.other[entry.name].kind \in {"array", "object"}
         THEN "Token contains invalid claim"
    ELSE IF ConstraintMet(entry, claims)
         THEN "ok"
         ELSE MismatchBody(entry.name)

FailingEntries ==
    {i \in 1..Len(HValidator.required_claims) :
        Verdict(HValidator.required_claims[i], HTokenClaims) # "ok"}

FirstFailing == CHOOSE i \in FailingEntries : \A j \in FailingEntries : i <= j

\* C7: required claims are enforced in list order: when some entry is
\* missing, invalid or mismatching, the response is 401 with the body of the
\* first such entry (nothing of a later entry shows), and the response is 200
\* only if every entry is present and meets its constraint (None any value,
\* Single equality, Multiple any element).
C7_RequiredInListOrder ==
    (hout.done /\ PassesToClaims) =>
        /\ FailingEntries # {} =>
              /\ Resp.status = 401
              /\ Resp.body = Verdict(HValidator.required_claims[FirstFailing],
                                     HTokenClaims)
              /\ Resp.headers = EmptyMap
        /\ Resp.status = 200 => FailingEntries = {}

\* C8: for the single required entry aud, a None constraint passes every
\* validated token that carries an aud claim, whatever its list of
\* audiences (the empty list too); a Single or Multiple constraint passes
\* exactly when at least one audience matches.
C8_AudPresenceSuffices ==
    (/\ hout.done
     /\ PassesToClaims
     /\ Len(HValidator.required_claims) = 1
     /\ HValidator.required_claims[1].name = "aud"
     /\ HTokenClaims.aud # None) =>
        LET value == HValidator.required_claims[1].value
        IN  IF value.kind = "None" THEN Resp.status = 200
            ELSE Resp.status = 200
                    <=> \E a \in Range(HTokenClaims.aud[1]) : Accepts(value, a)

\* C9: a required claim that is none of aud/iss/sub/exp/nbf is read from
\* claims.other and compared as text (null as the empty string, booleans as
\* true/false, numbers in decimal, strings as they are); an array or object
\* gives 401 "Token contains invalid claim", an absent claim 401 "Token is
\* missing required <name> claim", a mismatch 401 "Token doesn't match
\* required <name> claim".
C9_OtherClaimAsText ==
    (/\ hout.done
     /\ PassesToClaims
     /\ Len(HValidator.required_claims) >= 1
     /\ HValidator.required_claims[1].name = "grp") =>
        LET value == HValidator.required_claims[1].value
            other == HTokenClaims.other
        IN  IF "grp" \notin DOMAIN other
            THEN /\ Resp.status = 401
                 /\ Resp.body = "Token is missing required grp claim"
            ELSE IF other["grp"].kind \in {"array", "object"}
            THEN /\ Resp.status = 401
                 /\ Resp.body = "Token contains invalid claim"
            ELSE IF ~ Accepts(value, ScalarText(other["grp"]))
            THEN /\ Resp.status = 401
                 /\ Resp.body = "Token doesn't match required grp claim"
            ELSE Len(HValidator.required_claims) = 1 => Resp.status = 200

\* a null claim value passes a constraint that lists the empty string
C9_Witness ==
    /\ hout.done
    /\ PassesToClaims
    /\ Len(HValidator.required_claims) = 1
    /\ HValidator.required_claims[1].name = "grp"
    /\ HValidator.required_claims[1].value.kind = "Multiple"
    /\ HTokenClaims.other = ("grp" :> [kind |-> "null"])
    /\ Resp.status = 200

\* the text the handler is to project for a mapped claim that is present
ProjectedText(claim, claims) ==
    IF claim = "aud" THEN Join(claims.aud[1], StrComma)
    ELSE CHOOSE s \in ClaimTexts(claim, claims) : TRUE

Projectable(claim, claims) ==
    /\ ClaimPresent(claim, claims)
    /\ claim \notin StdClaims => claims.other[claim].kind \notin {"array", "object"}

\* C10: in a 200 response every map_claims entry whose claim the token holds
\* with a scalar value has its header set to header_val_lossy of the value's
\* text, whether or not the claim is a required claim.  (Where two claims
\* share one header name the header must be present.)
C10_MappedClaimsProjected ==
    (hout.done /\ Resp.status = 200) =>
        LET map == HValidator.map_claims
        IN  \A c \in DOMAIN map :
                Projectable(c, HTokenClaims) =>
                    /\ map[c] \in DOMAIN Resp.headers
                    /\ (\A d \in DOMAIN map : map[d] = map[c] => d = c) =>
                          Resp.headers[map[c]]
                              = header_val_lossy(ProjectedText(c, HTokenClaims))

---------------------------------------------------------------------------
(* header_val_lossy on enumerated inputs, utils/header_val.rs *)

\* length of the byte strings drawn
MaxLen == 3

\* bytes around every edge of is_valid: NUL, tab, LF, 31, space, '?', '~',
\* DEL, 128, 255
LossyBytes == {0, 9, 10, 31, 32, 63, 126, 127, 128, 255}

\* every single byte, and the strings over LossyBytes up to MaxLen
LossyInputs ==
    {<<b>> : b \in 0..255}
    \cup UNION {[1..n -> LossyBytes] : n \in 0..MaxLen}

LossyInit ==
    /\ data = [ver |-> 0, val |-> Err("unloaded")]
    /\ waiter = "none"
    /\ pc = "new"
    /\ cur = [ver |-> 0, val |-> Err("unloaded")]
    /\ states = "Starting"
    /\ authorities = EmptyMap
    /\ validators = EmptyMap
    /\ jwks = EmptyMap
    /\ orcPending = {}
    /\ spawned = [u \in {"u1", "u2"} |-> 0]
    /\ now = BootTime
    /\ listening = FALSE
    /\ req = IdleReq
    /\ hin \in {[set |-> TRUE, val |-> bs] : bs \in LossyInputs}
    /\ hout = NoOutput

\* header_val_lossy(val)
LossyApply ==
    /\ ~ hout.done
    /\ hout' = [done |-> TRUE, twice |-> FALSE, out |-> header_val_lossy(hin.val)]
    /\ UNCHANGED <<sysVars, hin>>

\* header_val_lossy on the bytes of the value it returned
LossyApplyAgain ==
    /\ hout.done
    /\ ~ hout.twice
    /\ hout' = [done |-> TRUE, twice |-> TRUE, once |-> hout.out,
                out |-> header_val_lossy(hout.out)]
    /\ UNCHANGED <<sysVars, hin>>

LossyNext == LossyApply \/ LossyApplyAgain

LossySpec == LossyInit /\ [][LossyNext]_vars

\* C11: header_val_lossy returns as many bytes as it is given; a byte that is
\* >= 32 and not 127, or is the tab 9, is unchanged and every other byte
\* becomes '?' (63); so the output holds only such valid bytes, and applying
\* the function to its output returns the output.
C11_LossyKeepsValidBytes ==
    /\ (hout.done /\ ~ hout.twice) =>
          /\ Len(hout.out) = Len(hin.val)
          /\ \A i \in 1..Len(hin.val) :
                LET b == hin.val[i]
                IN  IF (b >= 32 /\ b # 127) \/ b = 9
                    THEN hout.out[i] = b
                    ELSE hout.out[i] = 63
          /\ \A i \in 1..Len(hout.out) :
                (hout.out[i] >= 32 /\ hout.out[i] # 127) \/ hout.out[i] = 9
    /\ (hout.done /\ hout.twice) => hout.out = hout.once

\* a string with a tab, a DEL and a control byte has been converted twice
C11_Witness ==
    /\ hout.done
    /\ hout.twice
    /\ hin.val = <<9, 127, 10>>
    /\ hout.out = <<9, 63, 63>>

---------------------------------------------------------------------------
(* Config::from_file, validator_file/mod.rs *)

\* PartialJWTValidator
Partial(template, authority, header, header_prefix, required_claims, map_claims) ==
    [template |-> template, authority |-> authority, header |-> header,
     header_prefix |-> header_prefix, required_claims |-> required_claims,
     map_claims |-> map_claims]

\* file::RequiredClaim
Simple(name) == [kind |-> "Simple", name |-> name]
Complex(name, value) == [kind |-> "Complex", name |-> name, value |-> value]
ComplexMultiple(name, values) ==
    [kind |-> "ComplexMultiple", name |-> name, values |-> values]

\* the bytes HeaderName accepts: the token characters of RFC 7230
IsTchar(b) ==
    \/ b \in {33, 35, 36, 37, 38, 39, 42, 43, 45, 46, 94, 95, 96, 124, 126}
    \/ b >= 48 /\ b <= 57
    \/ b >= 65 /\ b <= 90
    \/ b >= 97 /\ b <= 122

\* HeaderName::from_str: a non-empty token, kept in lower case
HeaderNameFromStr(v) ==
    IF Len(v) = 0 \/ \E i \in 1..Len(v) : ~ IsTchar(v[i]) THEN None
    ELSE Some([i \in 1..Len(v) |-> IF v[i] >= 65 /\ v[i] <= 90 THEN v[i] + 32
                                   ELSE v[i]])

\* variant: a scalar of the template replaces the one already set
AdoptFromTemplate(cur_, t) == IF t # None THEN t ELSE cur_

\* if partial.x.is_none() { partial.x = temp.x.clone() }
Adopt(cur_, t) == IF cur_ = None THEN t ELSE cur_

\* variant: the template's entries are put in front
ExtendRequiredFront(cur_, t) == t \o cur_

\* variant: an entry of the template that is already in the list is left out
ExtendRequiredDedup(cur_, t) ==
    cur_ \o SelectSeq(t, LAMBDA rc : \A i \in 1..Len(cur_) : cur_[i] # rc)

\* partial.required_claims.extend(temp.required_claims.iter().cloned())
ExtendRequired(cur_, t) == cur_ \o t

\* partial.map_claims.extend(temp.map_claims...): HashMap::extend inserts
\* every pair of the template, replacing the value of a key already there
ExtendMap(cur_, t) == t @@ cur_

\* the body of the while loop up to the step to the next template
Merge(partial, temp) ==
    [partial EXCEPT
        !.authority = Adopt(@, temp.authority),
        !.header = Adopt(@, temp.header),
        !.header_prefix = Adopt(@, temp.header_prefix),
        !.required_claims = ExtendRequired(@, temp.required_claims),
        !.map_claims = ExtendMap(@, temp.map_claims)]

\* variant: a revisited template is reported as missing
CircularAsMissing == Err("MissingTemplate")

\* Err(ValidationFileError::CircularTemplate(..))
CircularTemplate == Err("CircularTemplate")

\* the walk along the template chain: tn has been put in visited and is
\* looked up now; Ok(merged partial) or the error
RECURSIVE WalkTemplates(_, _, _, _)
WalkTemplates(templates, partial, tn, visited) ==
    IF tn \notin DOMAIN templates THEN Err("MissingTemplate")
    ELSE LET temp == templates[tn]
             merged == Merge(partial, temp)
         IN  IF temp.template = None THEN Ok(merged)
             ELSE IF temp.template[1] \in visited THEN CircularTemplate
             ELSE WalkTemplates(templates, merged, temp.template[1],
                                visited \cup {temp.template[1]})

\* the template resolution of one validator entry
ResolveTemplates(templates, partial) ==
    IF partial.template = None THEN Ok(partial)
    ELSE WalkTemplates(templates, partial, partial.template[1],
                       {partial.template[1]})

\* the conversion of one required claim in from_partial
ToRequiredClaim(rc) ==
    CASE rc.kind = "Simple" -> [name |-> rc.name, value |-> AnyValue]
      [] rc.kind = "Complex" ->
            [name |-> rc.name,
             value |-> IF rc.value = None THEN AnyValue ELSE Single(rc.value[1])]
      [] rc.kind = "ComplexMultiple" ->
            [name |-> rc.name,
             value |-> IF Len(rc.values) = 0 THEN AnyValue
                       ELSE IF Len(rc.values) = 1 THEN Single(rc.values[1])
                       ELSE Multiple(rc.values)]

\* partial.header_prefix.filter(|s| !s.is_empty())
FilterEmpty(header_prefix) ==
    IF header_prefix # None /\ Len(header_prefix[1]) = 0 THEN None
    ELSE header_prefix

\* JWTValidator::from_partial: the fields are built in the order written
from_partial(partial) ==
    IF partial.header = None THEN Err("IsMissingHeader")
    ELSE IF partial.authority = None THEN Err("IsMissingAuthority")
    ELSE IF \E k \in DOMAIN partial.map_claims :
                HeaderNameFromStr(partial.map_claims[k]) = None
         THEN Err("InvalidHeaderName")
    ELSE Ok([authority |-> partial.authority[1],
             header |-> partial.header[1],
             header_prefix |-> FilterEmpty(partial.header_prefix),
             required_claims |->
                [i \in 1..Len(partial.required_claims) |->
                    ToRequiredClaim(partial.required_claims[i])],
             map_claims |->
                [k \in DOMAIN partial.map_claims |->
                    HeaderNameFromStr(partial.map_claims[k])[1]]])

\* variant: the authority named is not looked up
AuthorityKnownSkipped(authorities_, val) == TRUE

\* file.authorities.get(&val.authority).is_some()
AuthorityKnown(authorities_, val) == val.authority \in DOMAIN authorities_

\* one validator entry: templates, from_partial, the authority lookup
ResolveEntry(file, name) ==
    LET merged == ResolveTemplates(file.validator_templates, file.validators[name])
    IN  IF ~ merged.ok THEN merged
        ELSE LET val == from_partial(merged.cfg)
             IN  IF ~ val.ok THEN val
                 ELSE IF ~ AuthorityKnown(file.authorities, val.cfg)
                      THEN Err("MissingAuthority")
                      ELSE val

\* variant: an entry that fails is left out and the loop goes on
EntryFailedSkip(error, rest) == rest

\* `?` and `return Err(..)` in the loop: the error ends from_file
EntryFailed(error, rest) == error

\* the for loop over file.validators, in the order the HashMap yields them
RECURSIVE ResolveAll(_, _, _, _)
ResolveAll(file, order, i, done) ==
    IF i > Len(order)
    THEN Ok([authorities |-> file.authorities, validators |-> done])
    ELSE LET r == ResolveEntry(file, order[i])
         IN  IF ~ r.ok
             THEN EntryFailed(r, ResolveAll(file, order, i + 1, done))
             ELSE ResolveAll(file, order, i + 1, (order[i] :> r.cfg) @@ done)

from_file(file, order) == ResolveAll(file, order, 1, EmptyMap)

---------------------------------------------------------------------------
(* Config resolution on enumerated files, and the first load of its result *)

\* templates a file defines: they are named 1..MaxTemplates, and 0 is a
\* name no template has
MaxTemplates == 2

Levels == 0..MaxTemplates

\* values that tell the level (0 the validator, k the template k) that set
\* them
Auth(l) == <<"a", l>>
Hdr(l) == <<"h", l>>
Pfx(l) == <<80, 48 + l>>
Val(l) == <<48 + l>>
\* "X-<l>", "b <l>" (not a header name), "g"
HdrUpper(l) == <<88, 45, 48 + l>>
HdrBad(l) == <<98, 32, 48 + l>>
HdrG == <<103>>

JWTAuthority == [jwks_url |-> "u1", update_interval |-> None]

\* the template a partial names: none, a name no template has, a template
TemplateRefs == {None} \cup {Some(k) : k \in 0..MaxTemplates}

ConfigFile(authorities_, validator_templates, validators_) ==
    [authorities |-> authorities_, validator_templates |-> validator_templates,
     validators |-> validators_]

\* a partial with no scalars and no collections
Bare(template) == Partial(template, None, None, None, <<>>, EmptyMap)

\* a partial that is complete by itself
Complete(template) ==
    Partial(template, Some(Auth(0)), Some(Hdr(0)), Some(Pfx(0)),
            <<Simple("sub")>>, "sub" :> HdrUpper(0))

\* every template graph: template 1 carries the scalars, the others a
\* required claim; validator v1 relies on its templates, v2 is complete
GraphFiles ==
    {ConfigFile(Auth(0) :> JWTAuthority @@ Auth(1) :> JWTAuthority,
                [k \in 1..MaxTemplates |->
                    IF k = 1
                    THEN Partial(refs[k], Some(Auth(1)), Some(Hdr(1)), None,
                                 <<>>, EmptyMap)
                    ELSE Partial(refs[k], None, None, None,
                                 <<Complex("iss", Some(Val(k)))>>, EmptyMap)],
                vs) :
        refs \in [1..MaxTemplates -> TemplateRefs],
        vs \in {[n \in names |-> IF n = "v1" THEN Bare(r1) ELSE Complete(r2)] :
                   names \in SUBSET {"v1", "v2"},
                   r1 \in TemplateRefs, r2 \in TemplateRefs}}

\* the chain v1 -> 1 -> 2 -> ... -> MaxTemplates
ChainRef(l) == IF l < MaxTemplates THEN Some(l + 1) ELSE None

ChainFile(authorities_, parts) ==
    ConfigFile(authorities_, [k \in 1..MaxTemplates |-> parts[k]],
               "v1" :> parts[0])

\* every choice of scalars along the chain; the authority of the last
\* template is not among the authorities
ScalarFiles ==
    {ChainFile([a \in {Auth(l) : l \in 0..(MaxTemplates - 1)} |-> JWTAuthority],
               [l \in Levels |->
                   Partial(ChainRef(l),
                           IF sets[l].a THEN Some(Auth(l)) ELSE None,
                           IF sets[l].h THEN Some(Hdr(l)) ELSE None,
                           CASE sets[l].p = 0 -> None
                             [] sets[l].p = 1 -> Some(<<>>)
                             [] sets[l].p = 2 -> Some(Pfx(l)),
                           <<>>, EmptyMap)]) :
        sets \in [Levels -> [a : BOOLEAN, h : BOOLEAN, p : {0, 1, 2}]]}

RequiredChoices(l) ==
    {<<>>,
     <<Simple("sub")>>,
     <<Complex("iss", Some(Val(l))), ComplexMultiple("aud", <<Val(l), Alice>>)>>,
     <<ComplexMultiple("aud", <<>>), ComplexMultiple("grp", <<Val(l)>>),
       Complex("nbf", None)>>}

MapChoices(l) ==
    {EmptyMap,
     "sub" :> HdrUpper(l),
     "sub" :> HdrUpper(l) @@ "grp" :> HdrG,
     "grp" :> HdrBad(l)}

\* every choice of collections along the chain; the validator has its
\* scalars
CollectionFiles ==
    {ChainFile(Auth(0) :> JWTAuthority,
               [l \in Levels |->
                   Partial(ChainRef(l),
                           IF l = 0 THEN Some(Auth(0)) ELSE None,
                           IF l = 0 THEN Some(Hdr(0)) ELSE None,
                           None, rcs[l], maps[l])]) :
        rcs \in {f \in [Levels -> UNION {RequiredChoices(l) : l \in Levels}] :
                    \A l \in Levels : f[l] \in RequiredChoices(l)},
        maps \in {f \in [Levels -> UNION {MapChoices(l) : l \in Levels}] :
                    \A l \in Levels : f[l] \in MapChoices(l)}}

ResolveInputs == GraphFiles \cup ScalarFiles \cup CollectionFiles

ResolveInit ==
    /\ data = [ver |-> 0, val |-> Err("unloaded")]
    /\ waiter = "none"
    /\ pc = "new"
    /\ cur = [ver |-> 0, val |-> Err("unloaded")]
    /\ states = "Starting"
    /\ authorities = EmptyMap
    /\ validators = EmptyMap
    /\ jwks = EmptyMap
    /\ orcPending = {}
    /\ spawned = [u \in {"u1", "u2"} |-> 0]
    /\ now = BootTime
    /\ listening = FALSE
    /\ req = IdleReq
    /\ hin \in {[set |-> TRUE, file |-> f] : f \in ResolveInputs}
    /\ hout = NoOutput

\* Config::from_file on the file
ResolveApply ==
    /\ ~ hout.done
    /\ \E order \in Orders(hin.file.validators) :
          hout' = [done |-> TRUE, order |-> order,
                   out |-> from_file(hin.file, order)]
    /\ UNCHANGED <<sysVars, hin>>

\* Reloadable::new stores what the loader returned
ResolveStored ==
    /\ hout.done
    /\ pc = "new"
    /\ data' = [ver |-> 1, val |-> hout.out]
    /\ pc' = "boot_get"
    /\ UNCHANGED <<waiter, cur, states, authorities, validators, jwks,
                   orcPending, spawned, now, listening, req, hin, hout>>

\* start_file_watcher on the stored value, up to the refresh
ResolveBoot ==
    \/ OrcGet("boot_get", "boot_load_authorities", "boot_faulty")
    \/ OrcLoadAuthorities("boot_load_authorities", "boot_load_validators")
    \/ OrcLoadValidators("boot_load_validators", "boot_refresh_all")
    \/ OrcSetState("boot_faulty", "FaultyConfig", "boot_spawn")

ResolveNext == ResolveApply \/ ResolveStored \/ ResolveBoot

ResolveSpec == ResolveInit /\ [][ResolveNext]_vars

---------------------------------------------------------------------------
(* Resolution of a resolved configuration written back as a file *)

\* a RequiredClaim written in the file's form
FromRequiredClaim(rc) ==
    CASE rc.value.kind = "None" -> Simple(rc.name)
      [] rc.value.kind = "Single" -> Complex(rc.name, Some(rc.value.v))
      [] rc.value.kind = "Multiple" -> ComplexMultiple(rc.name, rc.value.vs)

\* a resolved JWTValidator written as a PartialJWTValidator that names the
\* template given
ToPartial(template, val) ==
    Partial(template, Some(val.authority), Some(val.header), val.header_prefix,
            [i \in 1..Len(val.required_claims) |->
                FromRequiredClaim(val.required_claims[i])],
            val.map_claims)

\* the ConfigFile of a resolved Config: the authorities and templates of
\* file, and every resolved validator with the template reference its entry
\* has in file
ToConfigFile(file, cfg) ==
    ConfigFile(cfg.authorities, file.validator_templates,
               [n \in DOMAIN cfg.validators |->
                   ToPartial(file.validators[n].template, cfg.validators[n])])

\* Config::from_file on the file written back from the Config it returned
ResolveAgain ==
    /\ hout.done
    /\ hout.out.ok
    /\ "again" \notin DOMAIN hout
    /\ \E order \in Orders(hin.file.validators) :
          hout' = [done |-> TRUE, order |-> hout.order, out |-> hout.out,
                   again |-> from_file(ToConfigFile(hin.file, hout.out.cfg), order)]
    /\ UNCHANGED <<sysVars, hin>>

RoundTripNext == ResolveApply \/ ResolveAgain

RoundTripSpec == ResolveInit /\ [][RoundTripNext]_vars

---------------------------------------------------------------------------
(* Properties of config resolution *)

HFile == hin.file
HResult == hout.out
Resolved == hout.done /\ HResult.ok

\* the templates along the chain that starts at ref, nearest first (for a
\* chain that ends)
RECURSIVE ChainFrom(_, _)
ChainFrom(templates, ref) ==
    IF ref = None THEN <<>>
    ELSE <<templates[ref[1]]>> \o ChainFrom(templates, templates[ref[1]].template)

\* the validator's own partial, then its templates
ChainOf(n) ==
    <<HFile.validators[n]>>
        \o ChainFrom(HFile.validator_templates, HFile.validators[n].template)

\* the first value of a list of options that is set, None when none is
FirstSome(opts) ==
    IF \A i \in 1..Len(opts) : opts[i] = None THEN None
    ELSE opts[CHOOSE i \in 1..Len(opts) :
                 opts[i] # None /\ \A j \in 1..(i - 1) : opts[j] = None]

LowerCase(v) ==
    [i \in 1..Len(v) |-> IF v[i] >= 65 /\ v[i] <= 90 THEN v[i] + 32 ELSE v[i]]

\* the header the nearest partial of the chain maps claim k to
NearestHeader(chain, k) ==
    FirstSome([i \in 1..Len(chain) |->
                  IF k \in DOMAIN chain[i].map_claims
                  THEN Some(chain[i].map_claims[k]) ELSE None])

\* C12: the map_claims merge is child-first: the resolved validator maps a
\* claim to the header given by the validator itself if it maps the claim,
\* otherwise by the nearest template that maps it.
C12_MapClaimsChildFirst ==
    Resolved =>
        \A n \in DOMAIN HFile.validators :
            LET chain == ChainOf(n)
                res == HResult.cfg.validators[n].map_claims
            IN  /\ DOMAIN res = UNION {DOMAIN chain[i].map_claims : i \in 1..Len(chain)}
                /\ \A k \in DOMAIN res :
                      res[k] = LowerCase(NearestHeader(chain, k)[1])

\* C13: the resolved authority, header and header_prefix are the
\* validator's own value if set, otherwise that of the nearest template that
\* sets it (an empty header_prefix counts as set and resolves to absent).
C13_ScalarsNearestFirst ==
    Resolved =>
        \A n \in DOMAIN HFile.validators :
            LET chain == ChainOf(n)
                res == HResult.cfg.validators[n]
                prefix == FirstSome([i \in 1..Len(chain) |-> chain[i].header_prefix])
            IN  /\ Some(res.authority)
                      = FirstSome([i \in 1..Len(chain) |-> chain[i].authority])
                /\ Some(res.header)
                      = FirstSome([i \in 1..Len(chain) |-> chain[i].header])
                /\ res.header_prefix = IF prefix = Some(<<>>) THEN None ELSE prefix

\* every level sets the authority, the header comes from the last template
\* and the prefix from the first one
C13_Witness ==
    /\ Resolved
    /\ "v1" \in DOMAIN HFile.validators
    /\ Len(ChainOf("v1")) = 1 + MaxTemplates
    /\ \A i \in 1..Len(ChainOf("v1")) : ChainOf("v1")[i].authority # None
    /\ ChainOf("v1")[1].header = None
    /\ ChainOf("v1")[2].header = None
    /\ ChainOf("v1")[1].header_prefix = None
    /\ ChainOf("v1")[2].header_prefix = Some(Pfx(1))
    /\ ChainOf("v1")[1 + MaxTemplates].header_prefix = Some(Pfx(MaxTemplates))
    /\ HResult.cfg.validators["v1"].authority = Auth(0)
    /\ HResult.cfg.validators["v1"].header = Hdr(MaxTemplates)

\* the required claims of the chain, one list after the other
RECURSIVE ConcatRequired(_, _)
ConcatRequired(chain, i) ==
    IF i > Len(chain) THEN <<>>
    ELSE chain[i].required_claims \o ConcatRequired(chain, i + 1)

\* C14: the resolved required_claims are the validator's own entries in
\* their order, then those of each template along the chain, nearest
\* template first, each in the template's order.
C14_RequiredClaimsAppended ==
    Resolved =>
        \A n \in DOMAIN HFile.validators :
            LET all == ConcatRequired(ChainOf(n), 1)
                res == HResult.cfg.validators[n].required_claims
            IN  /\ Len(res) = Len(all)
                /\ \A i \in 1..Len(all) :
                      /\ res[i].name = all[i].name
                      /\ res[i] = ToRequiredClaim(all[i])

\* the validator and each template bring two or three entries of their own
C14_Witness ==
    /\ Resolved
    /\ "v1" \in DOMAIN HFile.validators
    /\ Len(ChainOf("v1")) = 1 + MaxTemplates
    /\ Len(ChainOf("v1")[1].required_claims) = 3
    /\ \A i \in 2..Len(ChainOf("v1")) : Len(ChainOf("v1")[i].required_claims) = 2
    /\ Len(HResult.cfg.validators["v1"].required_claims) = 3 + 2 * MaxTemplates
    /\ HResult.cfg.validators["v1"].required_claims[4]
          = [name |-> "iss", value |-> Single(Val(1))]

\* the templates reached from template k in 1..steps references
RECURSIVE Follow(_, _, _)
Follow(templates, k, steps) ==
    IF steps = 0 \/ k \notin DOMAIN templates \/ templates[k].template = None
    THEN {}
    ELSE {templates[k].template[1]}
            \cup Follow(templates, templates[k].template[1], steps - 1)

\* the templates that reach themselves
OnCycle(templates) ==
    {k \in DOMAIN templates :
        k \in Follow(templates, k, Cardinality(DOMAIN templates))}

\* the validators whose template chain runs into a cycle
CycleReached ==
    LET templates == HFile.validator_templates
        far == Cardinality(DOMAIN templates)
    IN  {n \in DOMAIN HFile.validators :
            /\ HFile.validators[n].template # None
            /\ LET t == HFile.validators[n].template[1]
               IN  ({t} \cup Follow(templates, t, far)) \cap OnCycle(templates) # {}}

\* C15: any cycle in the template graph of the file (a template that reaches
\* itself through template references) makes resolution fail with
\* CircularTemplate.
C15_AnyCycleFails ==
    (hout.done /\ OnCycle(HFile.validator_templates) # {}) =>
        /\ ~ HResult.ok
        /\ HResult.err = "CircularTemplate"

\* C15, as the code has it: a cycle that the template chain of some
\* validator runs into makes resolution fail, with CircularTemplate when
\* such a validator is the first entry resolved.
C15_ReachedCycleFails ==
    (hout.done /\ CycleReached # {}) =>
        /\ ~ HResult.ok
        /\ hout.order[1] \in CycleReached => HResult.err = "CircularTemplate"

\* v1 is resolved first and runs into the cycle 1 -> 2 -> 1, v2 is sound
C15_Witness ==
    /\ hout.done
    /\ hout.order = <<"v1", "v2">>
    /\ CycleReached = {"v1"}
    /\ HFile.validators["v1"].template = Some(1)
    /\ HFile.validator_templates[1].template = Some(2)
    /\ HFile.validator_templates[2].template = Some(1)
    /\ HResult = Err("CircularTemplate")

\* a step of the reload loop's handling of a failed reload leaves both
\* stores as they are
FailureStepKeepsStores ==
    pc \in {"set_faulty", "clear_authorities", "clear_validators"} =>
        (authorities' = authorities /\ validators' = validators)

\* C16: when a reload fails to produce a Config, the snapshot of authorities
\* and validators published before is retained unchanged: no step of the
\* reload loop's handling of the failure changes either store.
C16_FailedReloadKeepsSnapshot == [][FailureStepKeepsStores]_vars

\* C16, as the code has it: once the reload loop has applied a failed
\* reload, the snapshot published before is gone: both stores are empty.
C16_FailedReloadClearsSnapshot ==
    (~ cur.val.ok /\ cur.ver >= 2 /\ pc \in {"loop", "waiting", "get"}) =>
        (authorities = EmptyMap /\ validators = EmptyMap)

\* a failed reload has been applied after a configuration had been loaded
C16_Witness ==
    /\ ~ cur.val.ok
    /\ cur.ver = 2
    /\ pc = "waiting"
    /\ jwks # EmptyMap
    /\ authorities = EmptyMap
    /\ validators = EmptyMap

\* C17: every Config that resolution returns has, for each validator, an
\* authority that is a key of its authorities, a header, and map_claims
\* values that are header names; so Store::load finds the authority of
\* every validator.
C17_ResolvedConfigSound ==
    /\ Resolved =>
          \A n \in DOMAIN HResult.cfg.validators :
              LET v == HResult.cfg.validators[n]
              IN  /\ v.authority \in DOMAIN HResult.cfg.authorities
                  /\ v.header # None
                  /\ \A k \in DOMAIN v.map_claims :
                        /\ Len(v.map_claims[k]) > 0
                        /\ \A i \in 1..Len(v.map_claims[k]) :
                              /\ IsTchar(v.map_claims[k][i])
                              /\ ~ (v.map_claims[k][i] >= 65 /\ v.map_claims[k][i] <= 90)
    /\ (hout.done /\ pc = "boot_refresh_all") =>
          /\ DOMAIN validators = DOMAIN HFile.validators
          /\ \A n \in DOMAIN validators :
                /\ validators[n].authority.name \in DOMAIN authorities
                /\ authorities[validators[n].authority.name] = validators[n].authority

\* a resolved file with two validators has been loaded into the stores
C17_Witness ==
    /\ hout.done
    /\ pc = "boot_refresh_all"
    /\ DOMAIN validators = {"v1", "v2"}
    /\ validators["v1"].authority.name = Auth(1)
    /\ validators["v2"].map_claims = ("sub" :> <<120, 45, 48>>)

\* the validator entries of the file whose resolution fails
FailingEntries18 ==
    {n \in DOMAIN HFile.validators : ~ ResolveEntry(HFile, n).ok}

\* C18: if the resolution of one validator entry fails, the whole load
\* returns an error (that of a failing entry), and no Config with the other
\* validators is returned or loaded into the stores.
C18_FailedEntryFailsLoad ==
    (hout.done /\ FailingEntries18 # {}) =>
        /\ ~ HResult.ok
        /\ \E n \in FailingEntries18 : ResolveEntry(HFile, n) = HResult
        /\ authorities = EmptyMap
        /\ validators = EmptyMap
        /\ pc \in {"new", "boot_get", "boot_faulty", "boot_spawn"}

\* v2 resolves first and is sound, v1 fails; the value has been observed
C18_Witness ==
    /\ hout.done
    /\ hout.order = <<"v2", "v1">>
    /\ FailingEntries18 = {"v1"}
    /\ HResult = Err("IsMissingHeader")
    /\ pc = "boot_spawn"
    /\ states = "FaultyConfig"
    /\ validators = EmptyMap

\* C19: a failure of the initial configuration load is fatal: startup is
\* aborted, the server is not started and the state stays Starting.
C19_InitialLoadFailureFatal ==
    (data.ver = 1 /\ ~ data.val.ok) => (states = "Starting" /\ ~ listening)

\* C19, as the code has it: what is fatal is the failure to construct the
\* reloadable source (its file watcher): then nothing is loaded, the server
\* is not started and the state stays Starting.
C19_WatcherFailureFatal ==
    pc = "aborted" =>
        /\ states = "Starting"
        /\ ~ listening
        /\ authorities = EmptyMap
        /\ validators = EmptyMap
        /\ req = IdleReq

\* startup has been aborted, and time has passed since
C19_Witness ==
    /\ pc = "aborted"
    /\ now = BootTime + TickStep

\* the first value observed was Err and nothing has been loaded since
FirstErrObserved ==
    /\ ~ cur.val.ok
    /\ cur.ver >= 1
    /\ pc \in {"boot_spawn", "loop", "waiting"}
    /\ jwks = EmptyMap

\* C20: if the first config value observed is Err, the state is set to
\* FaultyConfig and both stores stay empty, and the reload loop is started
\* all the same.
C20_FirstErrStartsLoop ==
    /\ [](FirstErrObserved =>
            /\ states = "FaultyConfig"
            /\ authorities = EmptyMap
            /\ validators = EmptyMap)
    /\ (pc = "boot_faulty") ~> (pc = "loop")

\* after a first value that was Err, the loop has applied a good reload
C20_Witness ==
    /\ cur.ver = 2
    /\ cur.val.ok
    /\ states = "FaultyConfig"
    /\ validators # EmptyMap
    /\ pc = "waiting"

---------------------------------------------------------------------------
(* JwksStore::get and JwksStore::ensure under concurrent callers *)

\* authorities of the configuration Store::load iterates over
MaxAuthorities == 3
\* calls of get or ensure made by another thread meanwhile
MaxCalls == 2

Uris == {"u1", "u2"}

\* variant: the entry is inserted whether or not the key is occupied
EntryInsert(map, uri, fresh) ==
    [inserted |-> TRUE, map |-> (uri :> fresh) @@ map, value |-> fresh]

\* DashMap::entry(uri).or_insert_with(..): under the shard's lock, the value
\* already there, or else the fresh one, which is inserted
EntryOrInsertWith(map, uri, fresh) ==
    IF uri \in DOMAIN map
    THEN [inserted |-> FALSE, map |-> map, value |-> map[uri]]
    ELSE [inserted |-> TRUE, map |-> (uri :> fresh) @@ map, value |-> fresh]

\* a caller: the calls it makes, the index of the call it is in, its
\* position in that call, and the handles its gets returned
Caller(calls) == [calls |-> calls, i |-> 1, pc |-> "check", got |-> <<>>]

\* Store::load calls get for the jwks_url of every authority
LoadCalls(urls) == [i \in 1..Len(urls) |-> [op |-> "get", uri |-> urls[i]]]

OtherCalls ==
    UNION {[1..n -> [op : {"get", "ensure"}, uri : Uris]] : n \in 0..MaxCalls}

DedupInputs ==
    {[set |-> TRUE, urls |-> urls, other |-> calls] :
        urls \in UNION {[1..k -> Uris] : k \in 1..MaxAuthorities},
        calls \in OtherCalls}

\* JwksStore::new: an empty map; no JwksState allocated yet.  heap holds the
\* JwksStateInner allocations, a handle (JwksState) is the index of one.
DedupInit ==
    /\ data = [ver |-> 0, val |-> Err("unloaded")]
    /\ waiter = "none"
    /\ pc = "new"
    /\ cur = [ver |-> 0, val |-> Err("unloaded")]
    /\ states = "Starting"
    /\ authorities = EmptyMap
    /\ validators = EmptyMap
    /\ jwks = EmptyMap
    /\ orcPending = {}
    /\ spawned = [u \in {"u1", "u2"} |-> 0]
    /\ now = BootTime
    /\ listening = FALSE
    /\ req = IdleReq
    /\ hin \in DedupInputs
    /\ hout = [done |-> FALSE, map |-> EmptyMap, heap |-> <<>>,
               refreshed |-> FALSE,
               callers |-> <<Caller(LoadCalls(hin.urls)), Caller(hin.other)>>]

CallOf(c) == c.calls[c.i]
Calling(c) == c.i <= Len(c.calls)

\* the call returns: a get hands out the handle
Returned(c, handle) ==
    [c EXCEPT !.i = @ + 1, !.pc = "check",
              !.got = IF CallOf(c).op = "get" THEN Append(@, handle) ELSE @]

\* self.states.get(uri): the first branch of get and of ensure
StoreLookup(t) ==
    LET c == hout.callers[t]
    IN  /\ Calling(c)
        /\ c.pc = "check"
        /\ hout' = [hout EXCEPT !.callers[t] =
                       IF CallOf(c).uri \in DOMAIN hout.map
                       THEN Returned(c, hout.map[CallOf(c).uri])
                       ELSE [c EXCEPT !.pc = "insert"]]
        /\ UNCHANGED <<sysVars, hin>>

\* self.states.entry(uri).or_insert_with(|| JwksState::new(..)): the second
\* branch of get and of ensure
StoreInsert(t) ==
    LET c == hout.callers[t]
        uri == CallOf(c).uri
        e == EntryOrInsertWith(hout.map, uri, Len(hout.heap) + 1)
    IN  /\ Calling(c)
        /\ c.pc = "insert"
        /\ hout' = [hout EXCEPT
                       !.map = e.map,
                       !.heap = IF e.inserted
                                THEN Append(@, [uri |-> uri, entry |-> JwksStateNew])
                                ELSE @,
                       !.callers[t] = Returned(c, e.value)]
        /\ UNCHANGED <<sysVars, hin>>

\* Store::load has built its authorities
Loaded == ~ Calling(hout.callers[1])

\* a refresh through the handle that authority i holds stores keys
RefreshThrough(i) ==
    /\ Loaded
    /\ ~ hout.refreshed
    /\ i \in 1..Len(hout.callers[1].got)
    /\ hout' = [hout EXCEPT
                   !.refreshed = TRUE,
                   !.heap[hout.callers[1].got[i]].entry = Refreshed(@, "ok", now)]
    /\ UNCHANGED <<sysVars, hin>>

DedupNext ==
    \/ \E t \in {1, 2} : StoreLookup(t)
    \/ \E t \in {1, 2} : StoreInsert(t)
    \/ \E i \in 1..MaxAuthorities : RefreshThrough(i)

DedupSpec == DedupInit /\ [][DedupNext]_vars

\* the handles the authorities hold, in the order of hin.urls
AuthorityHandles == hout.callers[1].got

\* C22: when k >= 1 authorities of a configuration name the same jwks_url,
\* after load the store has one entry for that URL, only one JwksState was
\* ever made for it, and all k authorities hold that same one (so what a
\* refresh through one stores is what the others read); also when another
\* thread calls get or ensure for the URL at the same time.
C22_OneEntryPerUrl ==
    Loaded =>
        /\ \A i \in 1..Len(hin.urls) :
              /\ hin.urls[i] \in DOMAIN hout.map
              /\ AuthorityHandles[i] = hout.map[hin.urls[i]]
              /\ hout.heap[AuthorityHandles[i]].uri = hin.urls[i]
        /\ \A i, j \in 1..Len(hin.urls) :
              hin.urls[i] = hin.urls[j] =>
                  /\ AuthorityHandles[i] = AuthorityHandles[j]
                  /\ hout.heap[AuthorityHandles[i]].entry
                        = hout.heap[AuthorityHandles[j]].entry
        /\ \A a, b \in 1..Len(hout.heap) :
              hout.heap[a].uri = hout.heap[b].uri => a = b
        /\ \A h \in {hout.callers[2].got[n] : n \in 1..Len(hout.callers[2].got)} :
              hout.map[hout.heap[h].uri] = h

\* three authorities name u1 while the other thread calls ensure and get
\* for u1; one JwksState was made, and the keys a refresh stored are read
\* through the first authority's handle
C22_Witness ==
    /\ Loaded
    /\ hin.urls = <<"u1", "u1", "u1">>
    /\ hin.other = <<[op |-> "ensure", uri |-> "u1"], [op |-> "get", uri |-> "u1"]>>
    /\ ~ Calling(hout.callers[2])
    /\ Len(hout.heap) = 1
    /\ hout.refreshed
    /\ hout.heap[AuthorityHandles[1]].entry.keys = {"k1"}

---------------------------------------------------------------------------
(* JwksState::refresh on enumerated responses, validators/jwks.rs *)

\* req.send().await fails: no response
TransportError == [kind |-> "transport"]

\* a response: its status, its ETag and Last-Modified headers, and the key
\* set its body parses to (None when the body is not a JWKS document)
HttpResponse(status, etag, last_modified, body) ==
    [kind |-> "http", status |-> status, etag |-> etag,
     last_modified |-> last_modified, body |-> body]

\* Response::error_for_status_ref: an error for a client or server error
\* status (4xx, 5xx), the response itself for every other status
ErrorForStatus(status) == status >= 400 /\ status <= 599

RefreshOk(entry) == [ok |-> TRUE, entry |-> entry]
RefreshErr(entry) == [ok |-> FALSE, entry |-> entry]

\* variant: a 304 stamps last_refresh
JwksStateRefreshTouch(entry, res, clock) ==
    IF res.kind = "transport" THEN RefreshErr(entry)
    ELSE IF res.status = 304
         THEN RefreshOk([entry EXCEPT !.last_refresh = clock])
    ELSE IF ErrorForStatus(res.status) THEN RefreshErr(entry)
    ELSE IF res.body = None THEN RefreshErr(entry)
    ELSE RefreshOk([keys |-> res.body[1], etag |-> res.etag,
                    last_modified |-> res.last_modified,
                    last_refresh |-> clock])

\* JwksState::refresh: the Result it returns and the entry it leaves
JwksStateRefresh(entry, res, clock) ==
    IF res.kind = "transport" THEN RefreshErr(entry)
    ELSE IF res.status = 304 THEN RefreshOk(entry)
    ELSE IF ErrorForStatus(res.status) THEN RefreshErr(entry)
    ELSE IF res.body = None THEN RefreshErr(entry)
    ELSE RefreshOk([keys |-> res.body[1], etag |-> res.etag,
                    last_modified |-> res.last_modified,
                    last_refresh |-> clock])

\* statuses a server can answer a GET with: success, a redirection the
\* client does not follow, not modified, client and server errors
Statuses == {200, 203, 300, 304, 404, 500}

Responses ==
    {TransportError}
    \cup {HttpResponse(status, etag, last_modified, body) :
             status \in Statuses, etag \in {None, Some("e2")},
             last_modified \in {None, Some("m2")},
             body \in {None, Some({}), Some({"k2"})}}

\* an entry refreshed from a response that had a Last-Modified and no ETag
WarmEntryDated ==
    [keys |-> {"k0"}, etag |-> None, last_modified |-> Some("m1"),
     last_refresh |-> BootTime]

LifecycleStates == {"Starting", "Running", "FaultyConfig"}

\* a store with entries u1 and u2, the entry refreshed, the response, the
\* clock, and the lifecycle state at the time
RefreshInputs ==
    {[set |-> TRUE, store |-> ("u1" :> e1) @@ ("u2" :> e2), uri |-> "u1",
      res |-> res, clock |-> clock, states |-> st] :
        e1 \in {JwksStateNew, WarmEntry, WarmEntryDated},
        e2 \in {JwksStateNew, WarmEntry},
        res \in Responses,
        clock \in {BootTime, BootTime + TickStep},
        st \in LifecycleStates}

RefreshInit ==
    /\ data = [ver |-> 0, val |-> Err("unloaded")]
    /\ waiter = "none"
    /\ pc = "new"
    /\ cur = [ver |-> 0, val |-> Err("unloaded")]
    /\ authorities = EmptyMap
    /\ validators = EmptyMap
    /\ orcPending = {}
    /\ spawned = [u \in {"u1", "u2"} |-> 0]
    /\ listening = FALSE
    /\ req = IdleReq
    /\ hin \in RefreshInputs
    /\ states = hin.states
    /\ jwks = hin.store
    /\ now = hin.clock
    /\ hout = NoOutput

\* state.refresh().await on the entry of hin.uri: only that entry is written
RefreshApply ==
    /\ ~ hout.done
    /\ LET r == JwksStateRefresh(jwks[hin.uri], hin.res, now)
       IN  /\ jwks' = [jwks EXCEPT ![hin.uri] = r.entry]
           /\ hout' = [done |-> TRUE, ok |-> r.ok]
    /\ UNCHANGED <<data, waiter, pc, cur, states, authorities, validators,
                   orcPending, spawned, now, listening, req, hin>>

RefreshNext == RefreshApply

RefreshSpec == RefreshInit /\ [][RefreshNext]_vars

---------------------------------------------------------------------------
(* Requests and the refreshes they spawn, on a loaded store *)

\* detached refreshes in flight per JWKS uri
MaxInFlight == 2

\* the entries the store can hold once start_file_watcher has returned: the
\* first refresh failed, or it stored keys
StormEntries == {JwksStateNew, WarmEntry}

\* start_file_watcher has loaded cfg, refresh_all has returned, the state is
\* Running, the reload loop waits and the server listens
StormInit ==
    /\ \E cfg \in {CfgA, CfgB} :
          /\ data = [ver |-> 1, val |-> Ok(cfg)]
          /\ cur = [ver |-> 1, val |-> Ok(cfg)]
          /\ authorities = LoadAuthorities(cfg)
          /\ validators = LoadValidators(cfg)
          /\ \E e \in StormEntries :
                jwks = [u \in DOMAIN JwksGetAll(EmptyMap, cfg) |-> e]
    /\ waiter = "registered"
    /\ pc = "waiting"
    /\ states = "Running"
    /\ orcPending = {}
    /\ spawned = [u \in {"u1", "u2"} |-> 0]
    /\ now = BootTime
    /\ listening = TRUE
    /\ req = IdleReq
    /\ hin = NoInput
    /\ hout = NoOutput

StormNext ==
    \/ Tick
    \/ \E name \in {"v1", "v2"}, headers \in SysHeaders : ReqLookup(name, headers)
    \/ ReqCheckUpTo(MaxInFlight)
    \/ ReqValidate
    \/ ReqDone
    \/ \E u \in {"u1", "u2"}, o \in RefreshOutcomes : SpawnedRefresh(u, o)

StormSpec == StormInit /\ [][StormNext]_vars

---------------------------------------------------------------------------
(* Properties of the JWKS refreshes *)

\* the JWKS URIs of the configuration the orchestrator read
CurUrls ==
    {cur.val.cfg.authorities[n].jwks_url : n \in DOMAIN cur.val.cfg.authorities}

\* the steps of the first observation of an Ok value, in their order
FirstOkOrdered ==
    \* the state becomes Running only at the end of the match arm, when both
    \* stores hold the configuration and no refresh is awaited any more
    /\ (states # "Running" /\ states' = "Running") =>
          /\ pc = "boot_set_running"
          /\ authorities = LoadAuthorities(cur.val.cfg)
          /\ validators = LoadValidators(cur.val.cfg)
          /\ CurUrls \subseteq DOMAIN jwks
          /\ orcPending = {}
    \* refresh_all starts a refresh of every URI of the configuration, after
    \* the stores were loaded
    /\ (pc = "boot_refresh_all" /\ pc' # pc) =>
          /\ authorities = LoadAuthorities(cur.val.cfg)
          /\ validators = LoadValidators(cur.val.cfg)
          /\ CurUrls # {}
          /\ CurUrls \subseteq orcPending'
    \* a refresh that is awaited stays awaited until it returns, and while
    \* one is awaited the state is not Running
    /\ (pc = "boot_refreshing" /\ orcPending # {}) =>
          /\ pc' = pc
          /\ states' # "Running"
          /\ \A u \in orcPending \ orcPending' :
                jwks'[u] = jwks[u] \/ jwks'[u].last_refresh = now
    \* once all have returned the state is set to Running, whatever they
    \* returned
    /\ (pc = "boot_refreshing" /\ pc' # pc) => pc' = "boot_set_running"
    /\ (pc = "boot_set_running" /\ pc' # pc) => states' = "Running"

\* C21: on a first config value that is Ok the stores are loaded, then
\* refresh_all is awaited to its end, then the state is set to Running: when
\* the state becomes Running a refresh of every JWKS URI of the
\* configuration was started and has returned, and the state becomes
\* Running also when those refreshes failed.
C21_RunningAfterRefreshAll == [][FirstOkOrdered]_vars

\* the state is Running although no refresh of the first configuration's
\* JWKS stored any keys
C21_Witness ==
    /\ states = "Running"
    /\ pc = "boot_spawn"
    /\ jwks # EmptyMap
    /\ \A u \in DOMAIN jwks : jwks[u].last_refresh = 0 /\ jwks[u].keys = {}

\* C23: a refresh that receives 304 Not Modified returns Ok and leaves the
\* entry's keys, ETag, Last-Modified and last_refresh as they were.
C23_NotModifiedChangesNothing ==
    (hout.done /\ hin.res.kind = "http" /\ hin.res.status = 304) =>
        /\ hout.ok
        /\ jwks[hin.uri].keys = hin.store[hin.uri].keys
        /\ jwks[hin.uri].etag = hin.store[hin.uri].etag
        /\ jwks[hin.uri].last_modified = hin.store[hin.uri].last_modified
        /\ jwks[hin.uri].last_refresh = hin.store[hin.uri].last_refresh

\* a warm entry was refreshed later than its last refresh, and the 304
\* carried a new ETag
C23_Witness ==
    /\ hout.done
    /\ hin.res.kind = "http"
    /\ hin.res.status = 304
    /\ hin.res.etag = Some("e2")
    /\ hin.store[hin.uri] = WarmEntry
    /\ now > hin.store[hin.uri].last_refresh
    /\ jwks = hin.store

\* the refresh fails in the spec's sense: no response, a status that is
\* neither 2xx nor 304, or a 2xx body that is not a JWKS document
RefreshFails(res) ==
    \/ res.kind = "transport"
    \/ /\ res.kind = "http"
       /\ \/ (res.status < 200 \/ res.status > 299) /\ res.status # 304
          \/ res.status >= 200 /\ res.status <= 299 /\ res.body = None

\* C24: a refresh that fails (transport error, non-2xx status other than
\* 304, or a 2xx body that is not a JWKS) returns an error and changes
\* nothing: the entry, the other entries and the lifecycle state are as
\* before.
C24_FailedRefreshChangesNothing ==
    (hout.done /\ RefreshFails(hin.res)) =>
        /\ ~ hout.ok
        /\ jwks = hin.store
        /\ states = hin.states

\* the JWKS entry of the authority of the request in flight
ReqUri == req.validator[1].authority.jwks

\* the freshness check of a request: a refresh is added to those in flight
\* exactly when the entry is older than the update interval, however many
\* are in flight already; no other step of a request spawns one
FreshnessCheckSpawns ==
    IF req.pc = "looked" /\ req'.pc = "fresh"
    THEN LET u == ReqUri
             elapsed == now - jwks[u].last_refresh
         IN  IF elapsed > req.validator[1].authority.update_interval
             THEN spawned' = [spawned EXCEPT ![u] = spawned[u] + 1]
             ELSE spawned' = spawned
    ELSE req' # req => spawned' = spawned

\* C25: each request that reaches the freshness check spawns a detached
\* refresh of its authority's JWKS exactly when now - last_refresh >
\* update_interval, whether or not refreshes are in flight already, and it
\* does not wait for it: after the check the request can go on to its
\* response whatever is in flight.
C25_SpawnedPerRequest ==
    /\ [][FreshnessCheckSpawns]_vars
    /\ [](req.pc = "fresh" => ENABLED ReqValidate)

\* a second request found the entry stale while the refresh that the first
\* spawned was still in flight and spawned another; it has its response
C25_Witness ==
    /\ req.pc = "done"
    /\ req.validator # None
    /\ req.resp.status \in {200, 401}
    /\ req.token = <<74>>
    /\ spawned[ReqUri] = 2

\* a step taken while a request that found its entry stale is between its
\* freshness check and Authority::validate leaves the keys of the entry as
\* the check found them
FreshKeysStable ==
    (/\ req.pc = "fresh"
     /\ req'.pc = "fresh"
     /\ now - jwks[ReqUri].last_refresh
            > req.validator[1].authority.update_interval) =>
        jwks'[ReqUri].keys = jwks[ReqUri].keys

\* C26: a request that triggers a refresh verifies its token against the
\* JWKS it observed at the freshness check: validate reads the entry when it
\* runs, so no keys are stored into the entry (by the refresh the request
\* spawned or by any other) between the check and validate.
C26_VerifiesAgainstSeenSnapshot == [][FreshKeysStable]_vars

\* refresh_new is called: the step that makes its futures
RefreshNewCalled == pc = "refresh_new" /\ pc' = "refreshing"

\* the refreshes refresh_new starts are those of the entries never refreshed
\* and of the entries refreshed less than an hour before now
RefreshNewPicksRecent ==
    RefreshNewCalled =>
        orcPending' = {u \in DOMAIN jwks :
                          \/ jwks[u].last_refresh = 0
                          \/ now - jwks[u].last_refresh < 3600}

\* C27: refresh_new refreshes exactly the entries whose last_refresh is zero
\* (never refreshed) or less than one hour before the current time.
C27_RefreshNewTargets == [][RefreshNewPicksRecent]_vars

\* the entry has been refreshed successfully before
Warm(u) == jwks[u].last_refresh # 0

\* the steps of a successful reload, from load to the end of refresh_new
ReloadRefreshesOnlyNew ==
    \* load and the making of the futures leave every entry as it is
    /\ (pc \in {"load_authorities", "load_validators", "refresh_new"}
            /\ pc' # pc) =>
          \A u \in DOMAIN jwks : jwks'[u] = jwks[u]
    \* a refresh of the reload that returns wrote at most its own entry,
    \* which refresh_new had picked
    /\ (pc = "refreshing" /\ orcPending' # orcPending) =>
          \A u \in DOMAIN jwks \ (orcPending \ orcPending') :
              jwks'[u] = jwks[u]
    \* every URI of the configuration has an entry, and the refreshes
    \* started are those of the entries that are not warm
    /\ RefreshNewCalled =>
          /\ CurUrls \subseteq DOMAIN jwks
          /\ orcPending' = {u \in DOMAIN jwks : ~ Warm(u)}
    \* the refreshes are awaited until each has returned
    /\ (pc = "refreshing" /\ orcPending # {}) => pc' = pc
    \* a warm entry holds keys, one that is not holds none
    /\ \A u \in DOMAIN jwks : Warm(u) <=> jwks[u].keys # {}

C29_ValidatorAuthorityPresent ==
    \A n \in DOMAIN validators :
        validators[n].authority.name \in DOMAIN authorities

\* the file has been resolved, written back and resolved again
ResolvedAgain == hout.done /\ "again" \in DOMAIN hout

\* C30: template resolution is idempotent: resolving the file written back
\* from the resolved validators, with their template references kept, gives
\* the resolved validators of the first resolution (same scalars, same
\* required_claims, same map_claims).
C30_ResolutionIdempotent ==
    ResolvedAgain =>
        /\ hout.again.ok
        /\ hout.again.cfg.validators = HResult.cfg.validators

\* the required_claims, in resolved form, of the templates of n's chain
TemplateRequired(n) ==
    LET chain == ChainFrom(HFile.validator_templates, HFile.validators[n].template)
        RECURSIVE Cat(_)
        Cat(i) ==
            IF i > Len(chain) THEN <<>>
            ELSE [j \in 1..Len(chain[i].required_claims) |->
                     ToRequiredClaim(chain[i].required_claims[j])] \o Cat(i + 1)
    IN  Cat(1)

\* the first header_prefix that is set among the templates of n's chain
TemplatePrefix(n) ==
    LET chain == ChainFrom(HFile.validator_templates, HFile.validators[n].template)
    IN  FirstSome([i \in 1..Len(chain) |-> chain[i].header_prefix])

\* C30, as the code has it: the second resolution succeeds and gives the
\* same authority, header and map_claims; its required_claims are those of
\* the first resolution followed once more by those of the chain's
\* templates; its header_prefix is that of the first resolution, or, when
\* that is absent, the non-empty prefix the nearest template sets.
C30_ResolutionRepeatsTemplates ==
    ResolvedAgain =>
        /\ hout.again.ok
        /\ DOMAIN hout.again.cfg.validators = DOMAIN HResult.cfg.validators
        /\ \A n \in DOMAIN HResult.cfg.validators :
              LET r == HResult.cfg.validators[n]
                  a == hout.again.cfg.validators[n]
              IN  /\ a.authority = r.authority
                  /\ a.header = r.header
                  /\ a.map_claims = r.map_claims
                  /\ a.required_claims = r.required_claims \o TemplateRequired(n)
                  /\ a.header_prefix =
                        IF r.header_prefix # None THEN r.header_prefix
                        ELSE IF TemplatePrefix(n) = Some(<<>>) THEN None
                        ELSE TemplatePrefix(n)

\* the chain's templates repeat a required claim the validator has itself,
\* and the second resolution lists it once more
C30_Witness ==
    /\ ResolvedAgain
    /\ "v1" \in DOMAIN HResult.cfg.validators
    /\ Len(TemplateRequired("v1")) >= 2
    /\ Len(HFile.validators["v1"].required_claims) >= 1
    /\ Len(hout.again.cfg.validators["v1"].required_claims)
          > Len(HResult.cfg.validators["v1"].required_claims)
    /\ \E i \in 1..Len(TemplateRequired("v1")) :
          TemplateRequired("v1")[i] = HResult.cfg.validators["v1"].required_claims[1]

---------------------------------------------------------------------------
(* Concurrent refreshes of one JWKS entry, statement by statement,         *)
(* validators/jwks.rs                                                      *)

\* refreshes of the entry that run at the same time
MaxRefreshers == 2

Refreshers == 1..MaxRefreshers

SwapUri == "u1"

\* struct Volatile: what the ArcSwap of an entry points to
Volatile(keys, etag, last_modified) ==
    [keys |-> keys, etag |-> etag, last_modified |-> last_modified]

\* self.inner.volatile.load() on an entry
VolatileLoad(entry) == Volatile(entry.keys, entry.etag, entry.last_modified)

\* the Volatile built from a response whose body parsed
VolatileFrom(res) == Volatile(res.body[1], res.etag, res.last_modified)

\* the responses refresh i can receive: the keys and the validators of a
\* response name the refresh that received it (0: the response the entry
\* was filled from before)
SwapResponses(i) ==
    {TransportError}
    \cup {HttpResponse(status, etag, last_modified, body) :
             status \in {200, 203, 304, 500},
             etag \in {None, Some("e" \o ToString(i))},
             last_modified \in {None, Some("m" \o ToString(i))},
             body \in {None, Some({"k" \o ToString(i)})}}

\* the entry before the refreshes start: never refreshed, or filled from an
\* earlier response
SwapEntries ==
    {JwksStateNew}
    \cup {[keys |-> r.body[1], etag |-> r.etag,
           last_modified |-> r.last_modified, last_refresh |-> BootTime] :
             r \in {r \in SwapResponses(0) :
                      r.kind = "http" /\ r.status = 200 /\ r.body # None}}

\* a call of JwksState::refresh: its position, the conditional headers it
\* sent, the response it received and the Result it returned
SwapTask ==
    [pc |-> "start", sent |-> [etag |-> None, last_modified |-> None],
     res |-> TransportError, result |-> "none"]

SwapInit ==
    /\ data = [ver |-> 0, val |-> Err("unloaded")]
    /\ waiter = "none"
    /\ pc = "new"
    /\ cur = [ver |-> 0, val |-> Err("unloaded")]
    /\ states = "Running"
    /\ authorities = EmptyMap
    /\ validators = EmptyMap
    /\ orcPending = {}
    /\ spawned = [u \in {"u1", "u2"} |-> 0]
    /\ listening = FALSE
    /\ req = IdleReq
    /\ now = BootTime
    /\ \E e \in SwapEntries :
          /\ hin = [set |-> TRUE, entry |-> e]
          /\ jwks = (SwapUri :> e)
          /\ hout = [done |-> FALSE,
                     tasks |-> [i \in Refreshers |-> SwapTask],
                     seen |-> VolatileLoad(e),
                     last |-> VolatileLoad(e)]

\* variant: a refresh starts only while no other refresh of the entry is
\* between its load and its return
RefreshLoadExclusive(i) ==
    /\ hout.tasks[i].pc = "start"
    /\ \A j \in Refreshers \ {i} : hout.tasks[j].pc \in {"start", "done"}
    /\ hout' = [hout EXCEPT !.tasks[i] =
                   [@ EXCEPT !.pc = "send",
                             !.sent = [etag |-> jwks[SwapUri].etag,
                                       last_modified |->
                                           jwks[SwapUri].last_modified]]]
    /\ UNCHANGED <<sysVars, hin>>

\* jwks.rs 101-112: one load of the Volatile gives If-None-Match and
\* If-Modified-Since
RefreshLoad(i) ==
    /\ hout.tasks[i].pc = "start"
    /\ LET volatile == VolatileLoad(jwks[SwapUri])
       IN  hout' = [hout EXCEPT !.tasks[i] =
                       [@ EXCEPT !.pc = "send",
                                 !.sent = [etag |-> volatile.etag,
                                           last_modified |->
                                               volatile.last_modified]]]
    /\ UNCHANGED <<sysVars, hin>>

\* jwks.rs 114-151: the response arrives; every outcome but a parsed body
\* returns at once
RefreshRespond(i, res) ==
    /\ hout.tasks[i].pc = "send"
    /\ LET r == JwksStateRefresh(jwks[SwapUri], res, now)
           stores == r.ok /\ ~ (res.kind = "http" /\ res.status = 304)
       IN  hout' = [hout EXCEPT !.tasks[i] =
                       [@ EXCEPT !.pc = IF stores THEN "store" ELSE "done",
                                 !.res = res,
                                 !.result = IF stores THEN "none"
                                            ELSE IF r.ok THEN "ok"
                                            ELSE "err"]]
    /\ UNCHANGED <<sysVars, hin>>

\* variant: keys, ETag and Last-Modified are three fields of the entry,
\* written one after the other
RefreshStoreFieldwise(i) ==
    /\ hout.tasks[i].pc = "store"
    /\ LET volatile == VolatileFrom(hout.tasks[i].res)
           entry == jwks[SwapUri]
           left == {f \in {"keys", "etag", "last_modified"} :
                       entry[f] # volatile[f]}
       IN  IF left = {}
           THEN /\ jwks' = jwks
                /\ hout' = [hout EXCEPT !.tasks[i].pc = "stamp",
                                        !.last = volatile]
           ELSE /\ \E f \in left :
                      jwks' = [jwks EXCEPT ![SwapUri][f] = volatile[f]]
                /\ hout' = hout
    /\ UNCHANGED <<data, waiter, pc, cur, states, authorities, validators,
                   orcPending, spawned, now, listening, req, hin>>

\* jwks.rs 137-143: self.inner.volatile.store(volatile), one pointer swap
RefreshStore(i) ==
    /\ hout.tasks[i].pc = "store"
    /\ LET volatile == VolatileFrom(hout.tasks[i].res)
       IN  /\ jwks' = [jwks EXCEPT ![SwapUri] =
                          [keys |-> volatile.keys, etag |-> volatile.etag,
                           last_modified |-> volatile.last_modified,
                           last_refresh |-> @.last_refresh]]
           /\ hout' = [hout EXCEPT !.tasks[i].pc = "stamp",
                                   !.last = volatile]
    /\ UNCHANGED <<data, waiter, pc, cur, states, authorities, validators,
                   orcPending, spawned, now, listening, req, hin>>

\* jwks.rs 144-155: self.inner.last_refresh.to_now(), then Ok(())
RefreshStamp(i) ==
    /\ hout.tasks[i].pc = "stamp"
    /\ jwks' = [jwks EXCEPT ![SwapUri].last_refresh = now]
    /\ hout' = [hout EXCEPT !.tasks[i].pc = "done",
                            !.tasks[i].result = "ok"]
    /\ UNCHANGED <<data, waiter, pc, cur, states, authorities, validators,
                   orcPending, spawned, now, listening, req, hin>>

\* jwks.rs 70-74: a reader (Authority::validate) loads the Volatile
ReadVolatile ==
    /\ hout' = [hout EXCEPT !.seen = VolatileLoad(jwks[SwapUri])]
    /\ UNCHANGED <<sysVars, hin>>

SwapNext ==
    \/ Tick
    \/ ReadVolatile
    \/ \E i \in Refreshers :
          \/ RefreshLoad(i)
          \/ \E res \in SwapResponses(i) : RefreshRespond(i, res)
          \/ RefreshStore(i)
          \/ RefreshStamp(i)

SwapSpec == SwapInit /\ [][SwapNext]_vars

---------------------------------------------------------------------------
(* Properties of the refresh of one entry *)

\* a 2xx response whose body is a JWKS document
Success(res) ==
    /\ res.kind = "http"
    /\ res.status >= 200 /\ res.status <= 299
    /\ res.body # None

\* the steps of a refresh that received a successful response
SuccessfulRefreshStores ==
    \A i \in Refreshers :
        LET t == hout.tasks[i]
            res == hout'.tasks[i].res
        IN  /\ (t.pc = "send" /\ hout'.tasks[i].pc # "send" /\ Success(res))
                   => hout'.tasks[i].pc = "store"
            /\ (t.pc = "store" /\ hout'.tasks[i].pc = "stamp"
                    /\ Success(t.res))
                   => /\ jwks'[SwapUri].keys = t.res.body[1]
                      /\ jwks'[SwapUri].etag = t.res.etag
                      /\ jwks'[SwapUri].last_modified = t.res.last_modified
            /\ (t.pc = "stamp" /\ hout'.tasks[i].pc = "done"
                    /\ Success(t.res))
                   => /\ hout'.tasks[i].result = "ok"
                      /\ jwks'[SwapUri].last_refresh = now
                      /\ (\A j \in Refreshers \ {i} :
                              hout.tasks[j].pc = "start")
                            => jwks'[SwapUri] =
                                  [keys |-> t.res.body[1],
                                   etag |-> t.res.etag,
                                   last_modified |-> t.res.last_modified,
                                   last_refresh |-> now]

\* the refresh has executed its volatile.store
HasStored(t) ==
    \/ t.pc = "stamp"
    \/ t.pc = "done" /\ t.result = "ok" /\ t.res.status # 304

\* the triples a reader may observe: the one the entry started with and
\* those of the responses stored since
WholeTriples ==
    {VolatileLoad(hin.entry)}
    \cup {Volatile(t.res.body[1], t.res.etag, t.res.last_modified) :
             t \in {hout.tasks[i] :
                       i \in {j \in Refreshers : HasStored(hout.tasks[j])}}}

\* C31: a refresh that receives a 2xx response with a parseable body stores
\* exactly the keys, ETag and Last-Modified of that response (an absent
\* header as None) and sets last_refresh to the clock; what a reader loads,
\* and what the entry holds, is always the triple of one response
C31_SuccessStoresWholeTriple ==
    /\ [][SuccessfulRefreshStores]_vars
    /\ [](hout.seen \in WholeTriples)
    /\ [](VolatileLoad(jwks[SwapUri]) \in WholeTriples)

\* two refreshes stored one after the other, the second without an ETag;
\* the entry holds the second response's triple and the clock's time
C31_Witness ==
    /\ \A i \in Refreshers : hout.tasks[i].result = "ok"
    /\ hout.tasks[1].res.status = 200 /\ hout.tasks[2].res.status = 203
    /\ hout.tasks[1].res.etag # None
    /\ hout.tasks[2].res.etag = None
    /\ hin.entry.etag # None
    /\ jwks[SwapUri].etag = None
    /\ jwks[SwapUri].keys = {"k2"}
    /\ jwks[SwapUri].last_refresh = BootTime + TickStep
    /\ hout.seen = VolatileLoad(jwks[SwapUri])

\* a step that changes the triple of the entry is the store of one refresh
\* and leaves that refresh's triple, whatever the entry held
StoreOverwrites ==
    VolatileLoad(jwks'[SwapUri]) # VolatileLoad(jwks[SwapUri])
        => \E i \in Refreshers :
              /\ hout.tasks[i].pc = "store"
              /\ hout'.tasks[i].pc = "stamp"
              /\ VolatileLoad(jwks'[SwapUri]) = VolatileFrom(hout.tasks[i].res)
              /\ hout'.last = VolatileFrom(hout.tasks[i].res)

\* the conditional headers of a refresh are those of the triple the entry
\* holds when the refresh starts
SendsHeadersOfOneTriple ==
    \A i \in Refreshers :
        (hout.tasks[i].pc = "start" /\ hout'.tasks[i].pc = "send")
            => /\ VolatileLoad(jwks[SwapUri]) \in WholeTriples
               /\ hout'.tasks[i].sent =
                     [etag |-> jwks[SwapUri].etag,
                      last_modified |-> jwks[SwapUri].last_modified]

\* a refresh can take its next step whatever the other refreshes are doing
NeverBlocked ==
    \A i \in Refreshers :
        /\ hout.tasks[i].pc = "start" => ENABLED RefreshLoad(i)
        /\ hout.tasks[i].pc = "send"
              => ENABLED (\E res \in SwapResponses(i) : RefreshRespond(i, res))
        /\ hout.tasks[i].pc = "store" => ENABLED RefreshStore(i)
        /\ hout.tasks[i].pc = "stamp" => ENABLED RefreshStamp(i)

\* C32: concurrent refreshes of one entry never wait for one another; each
\* sends the ETag and Last-Modified of the one triple the entry holds when it
\* starts; each store replaces the whole triple, so that once all have
\* returned the entry holds the triple stored last
C32_LastStoreWins ==
    /\ []NeverBlocked
    /\ [][StoreOverwrites /\ SendsHeadersOfOneTriple]_vars
    /\ []((\A i \in Refreshers : hout.tasks[i].pc = "done")
             => VolatileLoad(jwks[SwapUri]) = hout.last)

\* both refreshes sent the validators of the initial triple, so both started
\* before either stored; the second stored first and the first stored last
C32_Witness ==
    /\ \A i \in Refreshers : hout.tasks[i].pc = "done"
    /\ hin.entry.etag = Some("e0") /\ hin.entry.last_modified = Some("m0")
    /\ \A i \in Refreshers :
          /\ hout.tasks[i].result = "ok"
          /\ hout.tasks[i].res.status = 200
          /\ hout.tasks[i].sent = [etag |-> Some("e0"),
                                   last_modified |-> Some("m0")]
    /\ hout.last = VolatileFrom(hout.tasks[1].res)
    /\ hout.seen = VolatileFrom(hout.tasks[2].res)
    /\ jwks[SwapUri].keys = {"k1"}
    /\ jwks[SwapUri].etag = Some("e1")

---------------------------------------------------------------------------
(* The watcher callback of Reloadable::new on every kind of event,         *)
(* utils/reloadable.rs                                                     *)

\* callbacks the watcher delivers in one run
MaxCallbacks == 3

\* notify::EventKind, with the ModifyKind of a Modify
EventKinds ==
    {<<"Any">>, <<"Access">>, <<"Create">>, <<"Remove">>, <<"Other">>,
     <<"Modify", "Any">>, <<"Modify", "Data">>, <<"Modify", "Metadata">>,
     <<"Modify", "Name">>, <<"Modify", "Other">>}

\* Result<Event, notify::Error>, the argument of the callback
WatchResults ==
    {[ok |-> TRUE, kind |-> k] : k \in EventKinds}
    \cup {[ok |-> FALSE, kind |-> <<"Error">>]}

\* variant: every Modify reloads
RelevantAnyModify(kind) ==
    kind[1] \in {"Any", "Create", "Modify", "Remove"}

\* reloadable.rs 47-56: the kinds that fall through the match
Relevant(kind) ==
    \/ kind = <<"Any">>
    \/ kind[1] = "Create"
    \/ kind = <<"Modify", "Any">>
    \/ kind = <<"Modify", "Data">>
    \/ kind = <<"Modify", "Name">>
    \/ kind = <<"Modify", "Other">>
    \/ kind[1] = "Remove"

\* what the watcher has done so far: callbacks delivered, the argument and
\* the file content of the last one, calls of reload and of handle_error
WatchLog ==
    [done |-> FALSE, calls |-> 0, res |-> [ok |-> FALSE, kind |-> <<"Error">>],
     file |-> "none", reloads |-> 0, errors |-> 0]

WatchInit ==
    /\ data = [ver |-> 0, val |-> Err("unloaded")]
    /\ waiter = "none"
    /\ pc = "new"
    /\ cur = [ver |-> 0, val |-> Err("unloaded")]
    /\ states = "Starting"
    /\ authorities = EmptyMap
    /\ validators = EmptyMap
    /\ jwks = EmptyMap
    /\ orcPending = {}
    /\ spawned = [u \in {"u1", "u2"} |-> 0]
    /\ now = BootTime
    /\ listening = FALSE
    /\ req = IdleReq
    /\ hin = NoInput
    /\ hout = WatchLog

\* reloadable.rs 43-65: the callback on res, with f the file at that moment
WatcherCallback(res, f) ==
    /\ pc \notin {"new", "aborted"}
    /\ hout.calls < MaxCallbacks
    /\ IF res.ok
       THEN IF Relevant(res.kind)
            THEN /\ data' = [ver |-> data.ver + 1, val |-> ConfigLoad(f)]
                 /\ waiter' = IF waiter = "registered" THEN "notified"
                              ELSE waiter
                 /\ hout' = [hout EXCEPT !.calls = @ + 1, !.res = res,
                                         !.file = f, !.reloads = @ + 1]
            ELSE /\ hout' = [hout EXCEPT !.calls = @ + 1, !.res = res,
                                         !.file = f]
                 /\ UNCHANGED <<data, waiter>>
       ELSE /\ hout' = [hout EXCEPT !.calls = @ + 1, !.res = res,
                                    !.file = f, !.errors = @ + 1]
            /\ UNCHANGED <<data, waiter>>
    /\ UNCHANGED <<pc, cur, states, authorities, validators, jwks, orcPending,
                   spawned, now, listening, req, hin>>

WatchNext ==
    \/ \E res \in WatchResults, f \in Files : WatcherCallback(res, f)
    \/ Orchestrator

WatchSpec == WatchInit /\ [][WatchNext]_vars

---------------------------------------------------------------------------
(* Properties of the watcher callback *)

\* the kinds the callback reloads on: Any, Create, Modify(Any | Data | Name |
\* Other), Remove
RelevantKinds ==
    {<<"Any">>, <<"Create">>, <<"Remove">>, <<"Modify", "Any">>,
     <<"Modify", "Data">>, <<"Modify", "Name">>, <<"Modify", "Other">>}

\* a step of the callback, by the kind of its argument
CallbackEffect ==
    hout'.calls # hout.calls
        => LET res == hout'.res
           IN  IF res.ok /\ res.kind \in RelevantKinds
               THEN /\ hout'.reloads = hout.reloads + 1
                    /\ hout'.errors = hout.errors
                    /\ data' = [ver |-> data.ver + 1,
                                val |-> ConfigLoad(hout'.file)]
                    /\ waiter' = IF waiter = "registered" THEN "notified"
                                 ELSE waiter
               ELSE /\ data' = data
                    /\ waiter' = waiter
                    /\ hout'.reloads = hout.reloads
                    /\ hout'.errors = IF res.ok THEN hout.errors
                                      ELSE hout.errors + 1

\* C33: an event of an irrelevant kind and a watcher error leave the stored
\* value and the waiters alone and do not call the loader (the error goes to
\* the error sink); a relevant event calls the loader once, stores its
\* result, Ok or Err, and wakes the waiter registered at that moment
C33_OnlyRelevantEventsReload == [][CallbackEffect]_vars

\* a metadata-only event and a watcher error went by while the reload loop
\* waited on an Ok value; then a relevant event stored an Err and woke it
C33_Witness ==
    /\ hout.calls = 3
    /\ hout.reloads = 1
    /\ hout.errors = 1
    /\ hout.res = [ok |-> TRUE, kind |-> <<"Remove">>]
    /\ data.ver = 2
    /\ ~ data.val.ok
    /\ cur.val.ok
    /\ waiter = "notified"
    /\ pc = "waiting"

---------------------------------------------------------------------------
(* Properties of the JWKS store across reloads *)

\* the jwks_url values of a configuration
UrlsOf(cfg) == {cfg.authorities[n].jwks_url : n \in DOMAIN cfg.authorities}

\* no step removes an entry; Store::load adds the entries its configuration
\* lacks, leaves every entry it finds as it is and hands the authorities
\* entries of the store; Store::clear leaves the store alone
EntriesSurvive ==
    /\ DOMAIN jwks \subseteq DOMAIN jwks'
    /\ (pc \in {"boot_load_authorities", "load_authorities"} /\ pc' # pc)
          => /\ DOMAIN jwks' = DOMAIN jwks \cup UrlsOf(cur.val.cfg)
             /\ \A u \in DOMAIN jwks : jwks'[u] = jwks[u]
             /\ \A n \in DOMAIN authorities' :
                   /\ authorities'[n].jwks \in DOMAIN jwks'
                   /\ authorities'[n].jwks = cur.val.cfg.authorities[n].jwks_url
    /\ (pc \in {"set_faulty", "clear_authorities", "clear_validators"}
           /\ pc' # pc)
          => jwks' = jwks

\* C34: entries of the JWKS store survive reloads: neither load nor clear
\* removes one, so the store holds an entry for every jwks_url of every
\* configuration loaded so far, and a reload that meets an entry leaves its
\* keys, ETag and last_refresh as they were for the authority it rebuilds
C34_EntriesSurviveReloads ==
    /\ [][EntriesSurvive]_vars
    /\ [](\A n \in DOMAIN authorities : authorities[n].jwks \in DOMAIN jwks)

\* the third value, configuration A again, has just been loaded: the entry
\* of u1 still has the keys and the time of its refresh, and the entry of
\* u2, which no authority uses any more, is still there
C34_Witness ==
    /\ pc = "load_validators"
    /\ cur.ver = 3
    /\ cur.val = Ok(CfgA)
    /\ authorities["a1"].jwks = "u1"
    /\ jwks["u1"].keys = {"k1"}
    /\ jwks["u1"].last_refresh = BootTime
    /\ now = BootTime + TickStep
    /\ "u2" \in DOMAIN jwks

---------------------------------------------------------------------------
(* The readiness probe, probes.rs *)

\* readyz: the status and the body for the lifecycle state it reads
Readyz(state) ==
    CASE state = "Starting" -> [status |-> 503, body |-> "Starting"]
      [] state = "Running" -> [status |-> 200, body |-> "OK"]
      [] state = "FaultyConfig" ->
            [status |-> 500, body |-> "Faulty configuration"]

\* no step sets the lifecycle state to Starting
NeverBackToStarting == states' = "Starting" => states = "Starting"

\* C35: while the listener accepts requests the lifecycle state is Running
\* or FaultyConfig, so /readyz never answers 503 Starting: the state leaves
\* Starting before the listener is bound and never returns to it
C35_NoStartingWhileListening ==
    /\ [](listening => states \in {"Running", "FaultyConfig"})
    /\ [](listening => Readyz(states).status \in {200, 500})
    /\ [][NeverBackToStarting]_vars
    /\ [][(~ listening /\ listening') => states # "Starting"]_vars

\* the first load failed: the server listens and /readyz answers 500
C35_Witness ==
    /\ listening
    /\ data.ver = 1
    /\ ~ data.val.ok
    /\ states = "FaultyConfig"
    /\ Readyz(states) = [status |-> 500, body |-> "Faulty configuration"]

---------------------------------------------------------------------------
(* The watcher callback in its two statements, beside the reload loop,     *)
(* utils/reloadable.rs                                                     *)

\* the watcher thread: between two callbacks, or between the store and the
\* notify_waiters of one; and the files it has stored
WatcherIdle == [done |-> FALSE, watcher |-> "idle", files |-> <<>>]

ApplyInit ==
    /\ data = [ver |-> 0, val |-> Err("unloaded")]
    /\ waiter = "none"
    /\ pc = "new"
    /\ cur = [ver |-> 0, val |-> Err("unloaded")]
    /\ states = "Starting"
    /\ authorities = EmptyMap
    /\ validators = EmptyMap
    /\ jwks = EmptyMap
    /\ orcPending = {}
    /\ spawned = [u \in {"u1", "u2"} |-> 0]
    /\ now = BootTime
    /\ listening = FALSE
    /\ req = IdleReq
    /\ hin = NoInput
    /\ hout = WatcherIdle

\* reloadable.rs 58: inner_clone.data.store(Arc::new(reload(&path_clone)))
WatcherStore(f) ==
    /\ pc \notin {"new", "aborted"}
    /\ hout.watcher = "idle"
    /\ data.ver < 1 + MaxEvents
    /\ data' = [ver |-> data.ver + 1, val |-> ConfigLoad(f)]
    /\ hout' = [hout EXCEPT !.watcher = "stored", !.files = Append(@, f)]
    /\ UNCHANGED <<waiter, pc, cur, states, authorities, validators, jwks,
                   orcPending, spawned, now, listening, req, hin>>

\* reloadable.rs 59: inner_clone.notify.notify_waiters()
WatcherNotify ==
    /\ hout.watcher = "stored"
    /\ waiter' = IF waiter = "registered" THEN "notified" ELSE waiter
    /\ hout' = [hout EXCEPT !.watcher = "idle"]
    /\ UNCHANGED <<data, pc, cur, states, authorities, validators, jwks,
                   orcPending, spawned, now, listening, req, hin>>

ApplyNext ==
    \/ \E f \in Files : WatcherStore(f)
    \/ WatcherNotify
    \/ Orchestrator

ApplySpec == ApplyInit /\ [][ApplyNext]_vars

---------------------------------------------------------------------------
(* Properties of the order in which values are applied *)

\* a step of the orchestrator that reads the source takes the value stored
\* there at that moment; the value read is never older than the one read
\* before; the stores are filled from the value read last
AppliesCurrentValue ==
    /\ (pc \in {"boot_get", "get"} /\ pc' # pc) => cur' = data
    /\ cur'.ver >= cur.ver
    /\ (pc \in {"boot_load_authorities", "load_authorities"} /\ pc' # pc)
          => /\ cur.val.ok
             /\ DOMAIN authorities' = DOMAIN cur.val.cfg.authorities
    /\ (pc \in {"boot_load_validators", "load_validators"} /\ pc' # pc)
          => /\ cur.val.ok
             /\ DOMAIN validators' = DOMAIN cur.val.cfg.validators

\* C36: each time the reload loop wakes it applies the value the source
\* holds when it reads it, so the versions applied follow the order in which
\* the watcher stored them: a version can be skipped or applied twice, an
\* older one is never applied after a newer one
C36_AppliedInStoredOrder == [][AppliesCurrentValue]_vars

\* the watcher stored A and then B; A was never applied (the JWKS store has
\* no entry for its url); B has been applied, and the loop, woken by the
\* notify of the callback that stored B, is about to apply it again
C36_Witness ==
    /\ pc = "get"
    /\ hout.files = <<"A", "B">>
    /\ hout.watcher = "idle"
    /\ data.ver = 3
    /\ cur = data
    /\ authorities = LoadAuthorities(CfgB)
    /\ validators = LoadValidators(CfgB)
    /\ DOMAIN jwks = {"u2"}

---------------------------------------------------------------------------
(* Requests of every kind on a loaded store, validators/mod.rs *)

\* the header maps of the requests: no Authorization header, a JWT after
\* "B ", and a value whose last byte is not UTF-8
GateHeaders ==
    SysHeaders \cup {"Authorization" :> (PrefixB \o <<255>>)}

GateNext ==
    \/ Tick
    \/ \E name \in {"v1", "v2"}, headers \in GateHeaders :
          ReqLookup(name, headers)
    \/ ReqCheckUpTo(MaxInFlight)
    \/ ReqValidate
    \/ ReqDone
    \/ \E u \in {"u1", "u2"}, o \in RefreshOutcomes : SpawnedRefresh(u, o)

GateSpec == StormInit /\ [][GateNext]_vars

---------------------------------------------------------------------------
(* Properties of the point at which a request spawns a refresh *)

\* the request at the checks is for an unknown validator, lacks the
\* validator's header, or carries the value that is not UTF-8
RejectedBeforeFreshness ==
    /\ req.pc = "looked"
    /\ \/ req.name \notin DOMAIN validators
       \/ req.validator = None
       \/ req.validator[1].header \notin DOMAIN req.headers
       \/ req.headers[req.validator[1].header] = PrefixB \o <<255>>

\* a refresh is spawned only by the step that takes a request through the
\* checks to the point before Authority::validate, and for the entry of that
\* request's authority; a request the checks reject spawns nothing
SpawnOnlyPastChecks ==
    /\ RejectedBeforeFreshness
          => /\ \A u \in DOMAIN spawned : spawned'[u] <= spawned[u]
             /\ req'.pc # "fresh"
    /\ \A u \in DOMAIN spawned :
          spawned'[u] > spawned[u]
             => /\ req.pc = "looked"
                /\ req'.pc = "fresh"
                /\ req.validator # None
                /\ u = req.validator[1].authority.jwks
                /\ spawned'[u] = spawned[u] + 1

\* C37: a request spawns a refresh only after the validator lookup, the
\* header lookup and the UTF-8 check have passed, and before the signature
\* is verified: rejected at one of the three it causes no fetch, rejected at
\* the verification it has already spawned one
C37_SpawnOnlyAfterChecks ==
    /\ [][SpawnOnlyPastChecks]_vars
    /\ [](req.pc = "fresh" => req.resp = Panicked)

\* the entry has no keys and was never refreshed: the request spawned a
\* refresh and was then answered 401 for its signature
C37_Witness ==
    /\ req.pc = "done"
    /\ req.validator # None
    /\ req.resp = Unauthorized("Token isn't valid")
    /\ jwks[req.validator[1].authority.jwks] = JwksStateNew
    /\ spawned[req.validator[1].authority.jwks] = 1

---------------------------------------------------------------------------
(* Requests and the refreshes they spawn, on enumerated responses,         *)
(* validators/mod.rs and validators/jwks.rs                                *)

\* a detached jwks.refresh() spawned by a request completes on response res
SpawnedRefreshOn(u, res) ==
    /\ spawned[u] > 0
    /\ u \in DOMAIN jwks
    /\ jwks' = [jwks EXCEPT ![u] = JwksStateRefresh(@, res, now).entry]
    /\ spawned' = [spawned EXCEPT ![u] = @ - 1]
    /\ hout' = [done |-> FALSE, uri |-> u, res |-> res]
    /\ UNCHANGED <<data, waiter, pc, cur, states, authorities, validators,
                   orcPending, now, listening, req, hin>>

StaleNext ==
    \/ Tick
    \/ \E name \in {"v1", "v2"}, headers \in SysHeaders : ReqLookup(name, headers)
    \/ ReqCheckUpTo(MaxInFlight)
    \/ ReqValidate
    \/ ReqDone
    \/ \E u \in {"u1", "u2"}, res \in Responses : SpawnedRefreshOn(u, res)

StaleSpec == StormInit /\ [][StaleNext]_vars

---------------------------------------------------------------------------
(* Properties of staleness *)

\* a refresh that completes stamps last_refresh with the clock when its
\* response is a 2xx with a JWKS body, and leaves it as it is otherwise
StampedOnlyBySuccess ==
    \A u \in DOMAIN jwks :
        spawned'[u] < spawned[u]
            => IF Success(hout'.res)
               THEN jwks'[u].last_refresh = now
               ELSE jwks'[u].last_refresh = jwks[u].last_refresh

\* a request that reaches the freshness check spawns a refresh exactly when
\* more than update_interval has passed since last_refresh
SpawnsExactlyWhenStale ==
    (req.pc = "looked" /\ req'.pc = "fresh")
        => LET a == req.validator[1].authority
           IN  (spawned'[a.jwks] = spawned[a.jwks] + 1)
                  <=> (now - jwks[a.jwks].last_refresh > a.update_interval)

\* C38: staleness is reset only by a refresh that ends in a 2xx with a JWKS
\* body: up to update_interval after it no request spawns a refresh; a
\* refresh that ends in 304 or in an error leaves last_refresh, so that
\* every request at the freshness check goes on spawning
C38_StalenessResetOnlyBy2xx ==
    [][StampedOnlyBySuccess /\ SpawnsExactlyWhenStale]_vars

---------------------------------------------------------------------------
(* The template walk of Config::from_file, iteration by iteration,         *)
(* validator_file/mod.rs                                                   *)

\* variant: the name is not put in visited
VisitedInsertForgotten(visited, name) == visited

\* visited.insert(template_name.clone())
VisitedInsert(visited, name) == visited \cup {name}

\* file.validator_templates.get(template_name): the walk goes on with the
\* template, or ends with MissingTemplate
TemplateGet(w, templates, name) ==
    IF name \in DOMAIN templates
    THEN [w EXCEPT !.template = Some(name), !.looked = Append(@, name)]
    ELSE [w EXCEPT !.done = TRUE, !.out = Err("MissingTemplate"),
                   !.looked = Append(@, name)]

\* the walk of one validator entry before its first statement
WalkFresh(partial) ==
    [done |-> FALSE, at |-> "start", partial |-> partial, template |-> None,
     visited |-> {}, looked |-> <<>>, merged |-> <<>>,
     out |-> Err("unfinished")]

WalkInit ==
    /\ data = [ver |-> 0, val |-> Err("unloaded")]
    /\ waiter = "none"
    /\ pc = "new"
    /\ cur = [ver |-> 0, val |-> Err("unloaded")]
    /\ states = "Starting"
    /\ authorities = EmptyMap
    /\ validators = EmptyMap
    /\ jwks = EmptyMap
    /\ orcPending = {}
    /\ spawned = [u \in {"u1", "u2"} |-> 0]
    /\ now = BootTime
    /\ listening = FALSE
    /\ req = IdleReq
    /\ \E f \in GraphFiles : \E n \in DOMAIN f.validators :
          /\ hin = [set |-> TRUE, file |-> f, name |-> n]
          /\ hout = WalkFresh(f.validators[n])

\* mod.rs 55-68: visited is created and the validator's own template
\* reference is looked up
WalkStart ==
    /\ ~ hout.done
    /\ hout.at = "start"
    /\ LET ref == hout.partial.template
           w == [hout EXCEPT !.at = "loop"]
       IN  hout' = IF ref = None THEN w
                   ELSE TemplateGet(
                            [w EXCEPT !.visited = VisitedInsert(@, ref[1])],
                            hin.file.validator_templates, ref[1])
    /\ UNCHANGED <<sysVars, hin>>

\* mod.rs 70-106: one iteration of the while loop: merge the template, then
\* step to the template it names
WalkIterate ==
    /\ ~ hout.done
    /\ hout.at = "loop"
    /\ hout.template # None
    /\ LET name == hout.template[1]
           temp == hin.file.validator_templates[name]
           w == [hout EXCEPT !.partial = Merge(@, temp),
                             !.merged = Append(@, name),
                             !.template = None]
       IN  hout' = IF temp.template = None THEN w
                   ELSE IF temp.template[1] \in hout.visited
                   THEN [w EXCEPT !.done = TRUE, !.out = CircularTemplate]
                   ELSE TemplateGet(
                            [w EXCEPT !.visited =
                                          VisitedInsert(@, temp.template[1])],
                            hin.file.validator_templates, temp.template[1])
    /\ UNCHANGED <<sysVars, hin>>

\* mod.rs 107: the loop ends with no template left
WalkEnd ==
    /\ ~ hout.done
    /\ hout.at = "loop"
    /\ hout.template = None
    /\ hout' = [hout EXCEPT !.done = TRUE, !.out = Ok(hout.partial)]
    /\ UNCHANGED <<sysVars, hin>>

WalkNext == WalkStart \/ WalkIterate \/ WalkEnd

\* the loop runs on the loader's thread until it returns
WalkSpec == WalkInit /\ [][WalkNext]_vars /\ WF_vars(WalkNext)

---------------------------------------------------------------------------
(* Properties of the template walk *)

NoRepeat(seq) == \A i, j \in 1..Len(seq) : i # j => seq[i] # seq[j]

TemplateCount == Cardinality(DOMAIN hin.file.validator_templates)

\* no template name is looked up or merged twice, and the walk makes at most
\* one lookup more than the file has templates
WalkBounded ==
    /\ NoRepeat(hout.looked)
    /\ NoRepeat(hout.merged)
    /\ Len(hout.looked) <= TemplateCount + 1
    /\ Len(hout.merged) <= TemplateCount
    /\ hout.done
          => hout.out = ResolveTemplates(hin.file.validator_templates,
                                         hin.file.validators[hin.name])

\* C39: the template walk of a validator ends for every file, with templates
\* that name themselves and with cycles of any length: it visits a template
\* name at most once and returns a result or an error after at most
\* |validator_templates| + 1 lookups
C39_WalkTerminates ==
    /\ []WalkBounded
    /\ <>hout.done

\* the validator names template 2, which names template 1, which names
\* template 2: two templates merged, then CircularTemplate
C39_Witness ==
    /\ hout.done
    /\ hout.out = CircularTemplate
    /\ hout.looked = <<2, 1>>
    /\ hout.merged = <<2, 1>>
    /\ hin.file.validator_templates[1].template = Some(2)

====
